---- MODULE Spec2Model ----
(***************************************************************************)
(* A model of flashblocks-digestor: the bloom prefilter and the log        *)
(* decoders of crates/flashblocks-types, the parallel dispatch of          *)
(* src/protocols and the ingestion loop of src/main.rs.                    *)
(*                                                                         *)
(* Representation of values.                                               *)
(*   - A 32-byte topic word is the tuple <<p0, p1, p2>> of its three       *)
(*     leading big-endian byte pairs (bytes 0-1, 2-3, 4-5): exactly the    *)
(*     bytes the 2048-bit log bloom reads, and enough to tell the          *)
(*     signature hashes apart.                                             *)
(*   - A 32-byte word of a log's data is the number of significant bits    *)
(*     of the unsigned value it holds (0..256): what decides whether it    *)
(*     fits uintN / intN / address / bool, and whether a uint160 narrows   *)
(*     to 128 bits.                                                        *)
(*   - Option<T> is a sequence of length at most one.                      *)
(***************************************************************************)
EXTENDS Integers, Sequences, FiniteSets, TLC

VARIABLES
    \* --- pure-function harness (bloom prefilter, decoders) ---
    op,         \* the operation applied last
    bloom,      \* a Bloom: the set of its set bits
    inserted,   \* the topic words accrued into bloom
    flags,      \* results of the four from_bloom prefilters
    log,        \* the ReceiptLog handed to the decoders
    decoded,    \* decoder kind -> Option<event> for log
    logs,       \* the log slice handed to extract_all
    extracted,  \* decoder kind -> Vec<event> for logs
    \* --- dispatch scheduler (process_all_protocols) ---
    fb,         \* the Flashblock being dispatched
    sink,       \* the StreamOutput variant
    caller,     \* position of the caller of process_all_protocols
    spawned,    \* number of handlers the scope body has spawned
    hpc,        \* handler -> position of its task
    hevents,    \* handler -> the events it extracted
    hidx,       \* handler -> index of the next event of its for loop
    published,  \* envelopes accepted by the sink, in order
    \* --- ingestion loop (main) ---
    loop,       \* "running" | "handling" | "ended" | "crashed"
    done,       \* the shutdown flag
    msg,        \* the upstream message read last: <<kind, body>>, with its text when handled
    iter,       \* iteration order of the receipts map of msg
    handled,    \* number of upstream messages read
    diag,       \* diagnostics of the last iteration
    journal,    \* <<"begin", n>> / <<"end", n>>: the loop body for message n
    \* --- broadcast sinks (WebSocketServer, SseServer) ---
    server,     \* "WebSocket" | "Sse" | "Print"
    capacity,   \* channel_capacity given to new()
    chan,       \* the broadcast channel: [buffer, tail]
    rxs,        \* subscriber -> its Receiver: [state, next]
    npub,       \* number of send calls made
    result,     \* what the last send returned
    delivered,  \* subscriber -> the messages written to its connection
    lagged,     \* subscriber -> the lag counts it logged
    since,      \* subscriber -> npub when its Receiver was created
    \* --- accept loop and registry (WebSocketServer, SseServer) ---
    started,        \* start(): [result, listening (accept loop spawned)]
    next_client_id, \* the AtomicU64 counter
    clients,        \* the registry: client_id -> address (the connection)
    conns           \* connection -> [phase, id, timer]

decodeVars   == <<op, bloom, inserted, flags, log, decoded, logs, extracted>>
dispatchVars == <<fb, sink, caller, spawned, hpc, hevents, hidx, published>>
ingestVars   == <<loop, done, msg, iter, handled, diag, journal>>
streamVars   == <<server, capacity, chan, rxs, npub, result, delivered, lagged, since>>
connVars     == <<started, next_client_id, clients, conns>>
vars         == <<decodeVars, dispatchVars, ingestVars, streamVars, connVars>>

----------------------------------------------------------------------------
(* Bounds of the model *)

MaxTopics    == 5   \* longest topic list of a generated log
MaxDataWords == 6   \* longest data payload (in 32-byte words) of a generated log
MaxInserted  == 2   \* most words accrued into one bloom
MaxLogs      == 2   \* longest log slice handed to extract_all
MaxFbLogs    == 2   \* most logs carried by one flashblock
MaxMessages  == 2   \* most upstream messages read by the ingestion loop
MaxClients   == 2   \* most connections subscribing to one server
MaxPublish   == 4   \* most messages the publisher hands to the channel
MaxConnSends == 2   \* most messages sent while connections come and go

----------------------------------------------------------------------------
(* Option and sequence helpers *)

None    == <<>>
Some(x) == <<x>>

Range(s) == { s[i] : i \in DOMAIN s }

RECURSIVE Concat(_)
Concat(ss) == IF ss = <<>> THEN <<>> ELSE Head(ss) \o Concat(Tail(ss))

----------------------------------------------------------------------------
(* ABI types and events declared with sol! *)

UintT(n)  == [signed |-> FALSE, bits |-> n]
IntT(n)   == [signed |-> TRUE,  bits |-> n]
AddressT == UintT(160)
BoolT    == UintT(1)

\* An event: hash = SIGNATURE_HASH (keccak256 of the canonical signature, its
\* three leading byte pairs), topics = indexed parameters + 1, body = the
\* types of the non-indexed parameters in declared order.

\* aave.rs, Supply(address,address,address,uint256,uint16)
Aave_Supply == [hash |-> <<11106, 30518, 48289>>, topics |-> 4,
                body |-> <<AddressT, UintT(256)>>]
\* Withdraw(address,address,address,uint256)
Aave_Withdraw == [hash |-> <<12565, 53572, 39547>>, topics |-> 4,
                  body |-> <<UintT(256)>>]
\* Borrow(address,address,address,uint256,uint8,uint256,uint16)
Aave_Borrow == [hash |-> <<46032, 33922, 4017>>, topics |-> 4,
                body |-> <<AddressT, UintT(256), UintT(8), UintT(256)>>]
\* Repay(address,address,address,uint256,bool)
Aave_Repay == [hash |-> <<42292, 51419, 59167>>, topics |-> 4,
               body |-> <<UintT(256), BoolT>>]
\* LiquidationCall(address,address,address,uint256,uint256,address,bool)
Aave_LiquidationCall == [hash |-> <<58387, 41761, 59496>>, topics |-> 4,
                         body |-> <<UintT(256), UintT(256), AddressT, BoolT>>]

\* a Morpho Supply declared with the parameter types of the Aave Supply
Morpho_Supply_AaveTypes == Aave_Supply
\* morpho.rs, Supply(bytes32,address,address,uint256,uint256)
Morpho_Supply == [hash |-> <<60920, 34564, 13256>>, topics |-> 4,
                  body |-> <<UintT(256), UintT(256)>>]
\* Withdraw(bytes32,address,address,address,uint256,uint256)
Morpho_Withdraw == [hash |-> <<42351, 49325, 22274>>, topics |-> 4,
                    body |-> <<AddressT, UintT(256), UintT(256)>>]
\* Borrow(bytes32,address,address,address,uint256,uint256)
Morpho_Borrow == [hash |-> <<22281, 21588, 3053>>, topics |-> 4,
                  body |-> <<AddressT, UintT(256), UintT(256)>>]
\* Repay(bytes32,address,address,uint256,uint256)
Morpho_Repay == [hash |-> <<21164, 45148, 60349>>, topics |-> 4,
                 body |-> <<UintT(256), UintT(256)>>]
\* SupplyCollateral(bytes32,address,address,uint256)
Morpho_SupplyCollateral == [hash |-> <<41913, 18218, 5017>>, topics |-> 4,
                            body |-> <<UintT(256)>>]
\* WithdrawCollateral(bytes32,address,address,address,uint256)
Morpho_WithdrawCollateral == [hash |-> <<59406, 48508, 51490>>, topics |-> 4,
                              body |-> <<AddressT, UintT(256)>>]
\* Liquidate(bytes32,address,address,uint256,uint256,uint256,uint256,uint256)
Morpho_Liquidate == [hash |-> <<42132, 28382, 17872>>, topics |-> 4,
                     body |-> <<UintT(256), UintT(256), UintT(256), UintT(256), UintT(256)>>]
\* CreateMarket(bytes32,address,address,address,address,uint256)
Morpho_CreateMarket == [hash |-> <<3219, 63884, 19861>>, topics |-> 2,
                        body |-> <<AddressT, AddressT, AddressT, AddressT, UintT(256)>>]

\* chainlink.rs, AnswerUpdated(int256,uint256,uint256)
AnswerUpdated == [hash |-> <<1369, 34895, 54180>>, topics |-> 3,
                  body |-> <<UintT(256)>>]
\* NewRound(uint256,address,uint256)
NewRound == [hash |-> <<265, 64623, 21967>>, topics |-> 3,
             body |-> <<UintT(256)>>]

\* univ3.rs, Mint(address,address,int24,int24,uint128,uint256,uint256)
Mint == [hash |-> <<31315, 2059, 42004>>, topics |-> 4,
         body |-> <<AddressT, UintT(128), UintT(256), UintT(256)>>]
\* Collect(address,address,int24,int24,uint128,uint128)
Collect == [hash |-> <<28819, 21304, 59031>>, topics |-> 4,
            body |-> <<AddressT, UintT(128), UintT(128)>>]
\* Burn(address,int24,int24,uint128,uint256,uint256)
Burn == [hash |-> <<3129, 27865, 35235>>, topics |-> 4,
         body |-> <<UintT(128), UintT(256), UintT(256)>>]
\* Swap(address,address,int256,int256,uint160,uint128,int24)
Swap == [hash |-> <<50208, 31225, 19043>>, topics |-> 3,
         body |-> <<IntT(256), IntT(256), UintT(160), UintT(128), IntT(24)>>]
\* Flash(address,address,uint256,uint256,uint256,uint256)
Flash == [hash |-> <<48573, 46877, 30816>>, topics |-> 3,
          body |-> <<UintT(256), UintT(256), UintT(256), UintT(256)>>]


\* The signature registry: every event declared with sol!
Events == { Aave_Supply, Aave_Withdraw, Aave_Borrow, Aave_Repay, Aave_LiquidationCall,
            Morpho_Supply, Morpho_Withdraw, Morpho_Borrow, Morpho_Repay,
            Morpho_SupplyCollateral, Morpho_WithdrawCollateral, Morpho_Liquidate,
            Morpho_CreateMarket, AnswerUpdated, NewRound,
            Mint, Collect, Burn, Swap, Flash }

RegisteredHashes == { e.hash : e \in Events }

----------------------------------------------------------------------------
(* alloy_primitives::keccak256 (Keccak-f[1600], rate 136 bytes, domain     *)
(* byte 0x01). The state is the function from bit 64 * (x + 5y) + z to the *)
(* bit z of lane (x, y); a digest is its 32 bytes.                         *)

\* the set bits of the round constant of each of the 24 rounds
RoundConstants ==
    << {0}, {1, 7, 15}, {1, 3, 7, 15, 63}, {15, 31, 63}, {0, 1, 3, 7, 15},
    {0, 31}, {0, 7, 15, 31, 63}, {0, 3, 15, 63}, {1, 3, 7}, {3, 7}, {0, 3,
    15, 31}, {1, 3, 31}, {0, 1, 3, 7, 15, 31}, {0, 1, 3, 7, 63}, {0, 3, 7,
    15, 63}, {0, 1, 15, 63}, {1, 15, 63}, {7, 63}, {1, 3, 15}, {1, 3, 31,
    63}, {0, 7, 15, 31, 63}, {7, 15, 63}, {0, 31}, {3, 15, 31, 63} >>
\* the rotation of lane x + 5y
RotationOffsets ==
    << 0, 1, 62, 28, 27, 36, 44, 6, 55, 20, 3, 10, 43, 25, 39, 41, 45, 15,
    21, 8, 18, 2, 61, 56, 14 >>

\* the function f with every value computed
Strict(f) == IF f = f THEN f ELSE <<>>

\* theta: bit b takes the parities of the columns x - 1 (at z) and x + 1
\* (at z - 1), columns being numbered 64 * x + z
ThetaLeft == Strict([b \in 0..1599 |-> 64 * ((((b \div 64) % 5) + 4) % 5) + (b % 64)])
ThetaRight ==
    Strict([b \in 0..1599 |-> 64 * ((((b \div 64) % 5) + 1) % 5) + (((b % 64) + 63) % 64)])
\* rho and pi: bit z of lane (X, Y) comes from lane (x, y) = (X + 3Y, X),
\* rotated left by the offset of that lane
RhoPi ==
    Strict([b \in 0..1599 |->
        LET X == (b \div 64) % 5
            Y == b \div 320
            l == ((X + 3 * Y) % 5) + 5 * X
        IN  64 * l + (((b % 64) + 64 - RotationOffsets[l + 1]) % 64)])
\* chi: the bit at the same z in the lanes (X + 1, Y) and (X + 2, Y)
ChiNext(b, n) == 64 * (((((b \div 64) % 5) + n) % 5) + 5 * (b \div 320)) + (b % 64)
RhoPi1 == Strict([b \in 0..1599 |-> RhoPi[ChiNext(b, 1)]])
RhoPi2 == Strict([b \in 0..1599 |-> RhoPi[ChiNext(b, 2)]])

\* one round: theta, rho and pi, chi, iota
KeccakRound(A, rnd) ==
    LET C == Strict([c \in 0..319 |->
                 ((A[c] # A[c + 320]) # A[c + 640]) # (A[c + 960] # A[c + 1280])])
        T == Strict([b \in 0..1599 |-> A[b] # (C[ThetaLeft[b]] # C[ThetaRight[b]])])
    IN  Strict([b \in 0..1599 |->
                 LET chi == T[RhoPi[b]] # (~T[RhoPi1[b]] /\ T[RhoPi2[b]])
                 IN  IF b < 64 THEN chi # (b \in RoundConstants[rnd]) ELSE chi])

\* the rounds rnd..24 of the permutation, each computed before the next
RECURSIVE KeccakF(_, _)
KeccakF(A, rnd) ==
    IF rnd > Len(RoundConstants) THEN A
    ELSE LET R == KeccakRound(A, rnd)
         IN  IF R[0] \in BOOLEAN THEN KeccakF(R, rnd + 1) ELSE R

Bit(byte, j) == (byte \div (2 ^ j)) % 2 = 1

\* the message padded with 0x01 0x00.. 0x80 to a multiple of the rate
Padded(bytes) ==
    LET n == Len(bytes)
        total == 136 * ((n \div 136) + 1)
    IN  [i \in 1..total |->
            IF i <= n THEN bytes[i]
            ELSE (IF i = n + 1 THEN 1 ELSE 0) + (IF i = total THEN 128 ELSE 0)]

\* the blocks of p from byte offset off on are absorbed into A
RECURSIVE Absorb(_, _, _)
Absorb(A, p, off) ==
    IF off >= Len(p) THEN A
    ELSE Absorb(KeccakF(Strict([b \in 0..1599 |->
                    IF b < 1088 THEN A[b] # Bit(p[off + (b \div 8) + 1], b % 8)
                    ELSE A[b]]), 1),
                p, off + 136)

\* keccak256: the first 32 bytes of the state after absorbing the message
keccak256(bytes) ==
    LET A == Absorb([b \in 0..1599 |-> FALSE], Padded(bytes), 0)
        bit(k, j) == IF A[8 * (k - 1) + j] THEN 2 ^ j ELSE 0
    IN  Strict([k \in 1..32 |->
            bit(k, 0) + bit(k, 1) + bit(k, 2) + bit(k, 3)
              + bit(k, 4) + bit(k, 5) + bit(k, 6) + bit(k, 7)])

\* the topic word of a 32-byte value: its three leading byte pairs
WordOf(h) == << 256 * h[1] + h[2], 256 * h[3] + h[4], 256 * h[5] + h[6] >>

----------------------------------------------------------------------------
(* sol!: the signature and the SIGNATURE_HASH of the declared events *)

\* the bytes of a string literal
as_bytes(s) ==
    CASE
         s = "("                    -> << 40 >>
      [] s = ")"                    -> << 41 >>
      [] s = ","                    -> << 44 >>
      [] s = "AnswerUpdated"        -> << 65, 110, 115, 119, 101, 114, 85, 112, 100, 97, 116, 101, 100 >>
      [] s = "Borrow"               -> << 66, 111, 114, 114, 111, 119 >>
      [] s = "Burn"                 -> << 66, 117, 114, 110 >>
      [] s = "Collect"              -> << 67, 111, 108, 108, 101, 99, 116 >>
      [] s = "CreateMarket"         -> << 67, 114, 101, 97, 116, 101, 77, 97, 114, 107, 101, 116 >>
      [] s = "Flash"                -> << 70, 108, 97, 115, 104 >>
      [] s = "Liquidate"            -> << 76, 105, 113, 117, 105, 100, 97, 116, 101 >>
      [] s = "LiquidationCall"      -> << 76, 105, 113, 117, 105, 100, 97, 116, 105, 111, 110, 67, 97, 108, 108 >>
      [] s = "Mint"                 -> << 77, 105, 110, 116 >>
      [] s = "NewRound"             -> << 78, 101, 119, 82, 111, 117, 110, 100 >>
      [] s = "Repay"                -> << 82, 101, 112, 97, 121 >>
      [] s = "Supply"               -> << 83, 117, 112, 112, 108, 121 >>
      [] s = "SupplyCollateral"     -> << 83, 117, 112, 112, 108, 121, 67, 111, 108, 108, 97, 116, 101, 114, 97, 108 >>
      [] s = "Swap"                 -> << 83, 119, 97, 112 >>
      [] s = "Withdraw"             -> << 87, 105, 116, 104, 100, 114, 97, 119 >>
      [] s = "WithdrawCollateral"   -> << 87, 105, 116, 104, 100, 114, 97, 119, 67, 111, 108, 108, 97, 116, 101, 114, 97, 108 >>
      [] s = "address"              -> << 97, 100, 100, 114, 101, 115, 115 >>
      [] s = "bool"                 -> << 98, 111, 111, 108 >>
      [] s = "bytes32"              -> << 98, 121, 116, 101, 115, 51, 50 >>
      [] s = "int24"                -> << 105, 110, 116, 50, 52 >>
      [] s = "int256"               -> << 105, 110, 116, 50, 53, 54 >>
      [] s = "uint128"              -> << 117, 105, 110, 116, 49, 50, 56 >>
      [] s = "uint16"               -> << 117, 105, 110, 116, 49, 54 >>
      [] s = "uint160"              -> << 117, 105, 110, 116, 49, 54, 48 >>
      [] s = "uint256"              -> << 117, 105, 110, 116, 50, 53, 54 >>
      [] s = "uint8"                -> << 117, 105, 110, 116, 56 >>

RECURSIVE concat(_)
concat(tokens) ==
    IF tokens = <<>> THEN <<>> ELSE as_bytes(Head(tokens)) \o concat(Tail(tokens))

\* the event declarations of the four sol! blocks: the name and the types of
\* the parameters in declared order, with the positions of the indexed ones
SolEvents ==
    {
      [event |-> Aave_Supply, name |-> "Supply",
       inputs |-> << "address", "address", "address", "uint256", "uint16" >>,
       indexed |-> { 1, 3, 5 }],
      [event |-> Aave_Withdraw, name |-> "Withdraw",
       inputs |-> << "address", "address", "address", "uint256" >>,
       indexed |-> { 1, 2, 3 }],
      [event |-> Aave_Borrow, name |-> "Borrow",
       inputs |-> << "address", "address", "address", "uint256", "uint8", "uint256", "uint16" >>,
       indexed |-> { 1, 3, 7 }],
      [event |-> Aave_Repay, name |-> "Repay",
       inputs |-> << "address", "address", "address", "uint256", "bool" >>,
       indexed |-> { 1, 2, 3 }],
      [event |-> Aave_LiquidationCall, name |-> "LiquidationCall",
       inputs |-> << "address", "address", "address", "uint256", "uint256", "address", "bool" >>,
       indexed |-> { 1, 2, 3 }],
      [event |-> Morpho_Supply, name |-> "Supply",
       inputs |-> << "bytes32", "address", "address", "uint256", "uint256" >>,
       indexed |-> { 1, 2, 3 }],
      [event |-> Morpho_Withdraw, name |-> "Withdraw",
       inputs |-> << "bytes32", "address", "address", "address", "uint256", "uint256" >>,
       indexed |-> { 1, 3, 4 }],
      [event |-> Morpho_Borrow, name |-> "Borrow",
       inputs |-> << "bytes32", "address", "address", "address", "uint256", "uint256" >>,
       indexed |-> { 1, 3, 4 }],
      [event |-> Morpho_Repay, name |-> "Repay",
       inputs |-> << "bytes32", "address", "address", "uint256", "uint256" >>,
       indexed |-> { 1, 2, 3 }],
      [event |-> Morpho_SupplyCollateral, name |-> "SupplyCollateral",
       inputs |-> << "bytes32", "address", "address", "uint256" >>,
       indexed |-> { 1, 2, 3 }],
      [event |-> Morpho_WithdrawCollateral, name |-> "WithdrawCollateral",
       inputs |-> << "bytes32", "address", "address", "address", "uint256" >>,
       indexed |-> { 1, 3, 4 }],
      [event |-> Morpho_Liquidate, name |-> "Liquidate",
       inputs |-> << "bytes32", "address", "address", "uint256", "uint256", "uint256", "uint256", "uint256" >>,
       indexed |-> { 1, 2, 3 }],
      [event |-> Morpho_CreateMarket, name |-> "CreateMarket",
       inputs |-> << "bytes32", "address", "address", "address", "address", "uint256" >>,
       indexed |-> { 1 }],
      [event |-> AnswerUpdated, name |-> "AnswerUpdated",
       inputs |-> << "int256", "uint256", "uint256" >>,
       indexed |-> { 1, 2 }],
      [event |-> NewRound, name |-> "NewRound",
       inputs |-> << "uint256", "address", "uint256" >>,
       indexed |-> { 1, 2 }],
      [event |-> Mint, name |-> "Mint",
       inputs |-> << "address", "address", "int24", "int24", "uint128", "uint256", "uint256" >>,
       indexed |-> { 2, 3, 4 }],
      [event |-> Collect, name |-> "Collect",
       inputs |-> << "address", "address", "int24", "int24", "uint128", "uint128" >>,
       indexed |-> { 1, 3, 4 }],
      [event |-> Burn, name |-> "Burn",
       inputs |-> << "address", "int24", "int24", "uint128", "uint256", "uint256" >>,
       indexed |-> { 1, 2, 3 }],
      [event |-> Swap, name |-> "Swap",
       inputs |-> << "address", "address", "int256", "int256", "uint160", "uint128", "int24" >>,
       indexed |-> { 1, 2 }],
      [event |-> Flash, name |-> "Flash",
       inputs |-> << "address", "address", "uint256", "uint256", "uint256", "uint256" >>,
       indexed |-> { 1, 2 }]
    }

RECURSIVE Joined(_)
Joined(types) ==
    IF types = <<>> THEN <<>>
    ELSE IF Len(types) = 1 THEN as_bytes(types[1])
    ELSE as_bytes(types[1]) \o as_bytes(",") \o Joined(Tail(types))

\* variant: only the parameters that are not indexed (the types of the data)
SolEvent_SIGNATURE_data_only(d) ==
    as_bytes(d.name) \o as_bytes("(")
      \o Joined(SelectSeq([i \in 1..Len(d.inputs) |->
                              IF i \in d.indexed THEN "" ELSE d.inputs[i]],
                          LAMBDA t : t # ""))
      \o as_bytes(")")
\* SolEvent::SIGNATURE: name(type1,type2,...) over every parameter, indexed
\* or not, in declared order
SolEvent_SIGNATURE(d) ==
    as_bytes(d.name) \o as_bytes("(") \o Joined(d.inputs) \o as_bytes(")")

\* SolEvent::SIGNATURE_HASH
SolEvent_SIGNATURE_HASH(d) == keccak256(SolEvent_SIGNATURE(d))

\* the canonical signature strings: those hashed by the signature tests of
\* aave.rs, morpho.rs and chainlink.rs, and those of the five pool events
CanonicalSignature(e) ==
    CASE
         e = Aave_Supply ->
         << "Supply", "(", "address", ",", "address", ",", "address",
            ",", "uint256", ",", "uint16", ")" >>
      [] e = Aave_Withdraw ->
         << "Withdraw", "(", "address", ",", "address", ",", "address",
            ",", "uint256", ")" >>
      [] e = Aave_Borrow ->
         << "Borrow", "(", "address", ",", "address", ",", "address",
            ",", "uint256", ",", "uint8", ",", "uint256", ",", "uint16",
            ")" >>
      [] e = Aave_Repay ->
         << "Repay", "(", "address", ",", "address", ",", "address", ",",
            "uint256", ",", "bool", ")" >>
      [] e = Aave_LiquidationCall ->
         << "LiquidationCall", "(", "address", ",", "address", ",",
            "address", ",", "uint256", ",", "uint256", ",", "address",
            ",", "bool", ")" >>
      [] e = Morpho_Supply ->
         << "Supply", "(", "bytes32", ",", "address", ",", "address",
            ",", "uint256", ",", "uint256", ")" >>
      [] e = Morpho_Withdraw ->
         << "Withdraw", "(", "bytes32", ",", "address", ",", "address",
            ",", "address", ",", "uint256", ",", "uint256", ")" >>
      [] e = Morpho_Borrow ->
         << "Borrow", "(", "bytes32", ",", "address", ",", "address",
            ",", "address", ",", "uint256", ",", "uint256", ")" >>
      [] e = Morpho_Repay ->
         << "Repay", "(", "bytes32", ",", "address", ",", "address", ",",
            "uint256", ",", "uint256", ")" >>
      [] e = Morpho_SupplyCollateral ->
         << "SupplyCollateral", "(", "bytes32", ",", "address", ",",
            "address", ",", "uint256", ")" >>
      [] e = Morpho_WithdrawCollateral ->
         << "WithdrawCollateral", "(", "bytes32", ",", "address", ",",
            "address", ",", "address", ",", "uint256", ")" >>
      [] e = Morpho_Liquidate ->
         << "Liquidate", "(", "bytes32", ",", "address", ",", "address",
            ",", "uint256", ",", "uint256", ",", "uint256", ",",
            "uint256", ",", "uint256", ")" >>
      [] e = Morpho_CreateMarket ->
         << "CreateMarket", "(", "bytes32", ",", "address", ",",
            "address", ",", "address", ",", "address", ",", "uint256",
            ")" >>
      [] e = AnswerUpdated ->
         << "AnswerUpdated", "(", "int256", ",", "uint256", ",",
            "uint256", ")" >>
      [] e = NewRound ->
         << "NewRound", "(", "uint256", ",", "address", ",", "uint256",
            ")" >>
      [] e = Mint ->
         << "Mint", "(", "address", ",", "address", ",", "int24", ",",
            "int24", ",", "uint128", ",", "uint256", ",", "uint256", ")" >>
      [] e = Collect ->
         << "Collect", "(", "address", ",", "address", ",", "int24", ",",
            "int24", ",", "uint128", ",", "uint128", ")" >>
      [] e = Burn ->
         << "Burn", "(", "address", ",", "int24", ",", "int24", ",",
            "uint128", ",", "uint256", ",", "uint256", ")" >>
      [] e = Swap ->
         << "Swap", "(", "address", ",", "address", ",", "int256", ",",
            "int256", ",", "uint160", ",", "uint128", ",", "int24", ")" >>
      [] e = Flash ->
         << "Flash", "(", "address", ",", "address", ",", "uint256", ",",
            "uint256", ",", "uint256", ",", "uint256", ")" >>

----------------------------------------------------------------------------
(* alloy_primitives::Bloom: 2048 bits, three bits per item. For          *)
(* BloomInput::Hash the item's own bytes are used: bit i is the byte pair  *)
(* (2i, 2i+1) masked to 11 bits.                                           *)

BloomBits(word) == { word[i] % 2048 : i \in 1..3 }

Bloom_default == {}

accrue(b, word) == b \cup BloomBits(word)

contains_input(b, word) == BloomBits(word) \subseteq b

----------------------------------------------------------------------------
(* Bloom prefilters *)

AaveEvents_default ==
    [may_have_supply |-> FALSE, may_have_withdraw |-> FALSE, may_have_borrow |-> FALSE,
     may_have_repay |-> FALSE, may_have_liquidation |-> FALSE]

\* variant: the withdraw flag tests the Supply hash
AaveEvents_from_bloom_copy_paste(b) ==
    [may_have_supply      |-> contains_input(b, Aave_Supply.hash),
     may_have_withdraw    |-> contains_input(b, Aave_Supply.hash),
     may_have_borrow      |-> contains_input(b, Aave_Borrow.hash),
     may_have_repay       |-> contains_input(b, Aave_Repay.hash),
     may_have_liquidation |-> contains_input(b, Aave_LiquidationCall.hash)]
\* AaveEvents::from_bloom
AaveEvents_from_bloom(b) ==
    [may_have_supply      |-> contains_input(b, Aave_Supply.hash),
     may_have_withdraw    |-> contains_input(b, Aave_Withdraw.hash),
     may_have_borrow      |-> contains_input(b, Aave_Borrow.hash),
     may_have_repay       |-> contains_input(b, Aave_Repay.hash),
     may_have_liquidation |-> contains_input(b, Aave_LiquidationCall.hash)]

MorphoEvents_default ==
    [may_have_supply |-> FALSE, may_have_withdraw |-> FALSE, may_have_borrow |-> FALSE,
     may_have_repay |-> FALSE, may_have_supply_collateral |-> FALSE,
     may_have_withdraw_collateral |-> FALSE, may_have_liquidation |-> FALSE,
     may_have_create_market |-> FALSE]

MorphoEvents_from_bloom(b) ==
    [may_have_supply              |-> contains_input(b, Morpho_Supply.hash),
     may_have_withdraw            |-> contains_input(b, Morpho_Withdraw.hash),
     may_have_borrow              |-> contains_input(b, Morpho_Borrow.hash),
     may_have_repay               |-> contains_input(b, Morpho_Repay.hash),
     may_have_supply_collateral   |-> contains_input(b, Morpho_SupplyCollateral.hash),
     may_have_withdraw_collateral |-> contains_input(b, Morpho_WithdrawCollateral.hash),
     may_have_liquidation         |-> contains_input(b, Morpho_Liquidate.hash),
     may_have_create_market       |-> contains_input(b, Morpho_CreateMarket.hash)]

ChainlinkEvents_default ==
    [may_have_answer_updated |-> FALSE, may_have_new_round |-> FALSE]

ChainlinkEvents_from_bloom(b) ==
    [may_have_answer_updated |-> contains_input(b, AnswerUpdated.hash),
     may_have_new_round      |-> contains_input(b, NewRound.hash)]

UniV3Events_default ==
    [may_have_mint |-> FALSE, may_have_collect |-> FALSE, may_have_burn |-> FALSE,
     may_have_swap |-> FALSE, may_have_flash |-> FALSE]

UniV3Events_from_bloom(b) ==
    [may_have_mint    |-> contains_input(b, Mint.hash),
     may_have_collect |-> contains_input(b, Collect.hash),
     may_have_burn    |-> contains_input(b, Burn.hash),
     may_have_swap    |-> contains_input(b, Swap.hash),
     may_have_flash   |-> contains_input(b, Flash.hash)]

\* AaveEvents::any
AaveEvents_any(e) ==
    \/ e.may_have_supply \/ e.may_have_withdraw \/ e.may_have_borrow
    \/ e.may_have_repay \/ e.may_have_liquidation

\* variant: the || chain of AaveEvents::any, which stops at the liquidation flag
MorphoEvents_any_short(e) ==
    \/ e.may_have_supply \/ e.may_have_withdraw \/ e.may_have_borrow
    \/ e.may_have_repay \/ e.may_have_liquidation
\* MorphoEvents::any
MorphoEvents_any(e) ==
    \/ e.may_have_supply \/ e.may_have_withdraw \/ e.may_have_borrow
    \/ e.may_have_repay \/ e.may_have_supply_collateral
    \/ e.may_have_withdraw_collateral \/ e.may_have_liquidation
    \/ e.may_have_create_market

\* ChainlinkEvents::any
ChainlinkEvents_any(e) == e.may_have_answer_updated \/ e.may_have_new_round

\* UniV3Events::any
UniV3Events_any(e) ==
    \/ e.may_have_mint \/ e.may_have_collect \/ e.may_have_burn
    \/ e.may_have_swap \/ e.may_have_flash

\* any() of each of the four prefilter results
any(f) == [aave      |-> AaveEvents_any(f.aave),
           morpho    |-> MorphoEvents_any(f.morpho),
           chainlink |-> ChainlinkEvents_any(f.chainlink),
           univ3     |-> UniV3Events_any(f.univ3)]

----------------------------------------------------------------------------
(* alloy_sol_types: SolEvent::decode_raw_log(topics, data, validate = true) *)

\* type_check of one decoded word: an unsigned N-bit type holds a word of at
\* most N significant bits; a signed N-bit type (N < 256) holds the
\* non-negative words of fewer than N bits (sign-extended negative words are
\* outside the word representation).
Fits(ty, w) == IF ty.signed THEN ty.bits = 256 \/ w < ty.bits ELSE w <= ty.bits

\* abi_decode_data with validate: the payload is exactly one word per
\* non-indexed parameter, each in the range of its type.
abi_decode_data(ev, data) ==
    /\ Len(data) = Len(ev.body)
    /\ \A i \in 1..Len(data) : Fits(ev.body[i], data[i])

\* decode_topics takes the first ev.topics topics and fails if there are
\* fewer (it does not look for more); check_signature compares topic 0.
decode_raw_log(ev, topics, data) ==
    IF Len(topics) < ev.topics THEN None
    ELSE IF topics[1] # ev.hash THEN None
    ELSE IF ~abi_decode_data(ev, data) THEN None
    ELSE Some([indexed |-> SubSeq(topics, 2, ev.topics), body |-> data])

\* alloy_primitives::LogData::new: a log has at most four topics.
LogData_new(topics, data) ==
    IF Len(topics) <= 4 THEN Some([topics |-> topics, data |-> data]) ELSE None

----------------------------------------------------------------------------
(* Event decoders. A decoded event keeps the emitter address (pool, feed,   *)
(* morpho), the indexed values (topics 1..) and the non-indexed values in   *)
(* declared order, under the name of its Parsed* struct.                   *)

Event(kind, address, d) ==
    [kind |-> kind, contract |-> address, indexed |-> d.indexed, body |-> d.body]

\* topics[i] of a Vec (i counted from 0): the element, or nothing when i is
\* out of bounds, where the Index of a Vec panics
index(topics, i) == IF i < Len(topics) THEN Some(topics[i + 1]) ELSE None
\* what a decoder leaves in place of a result when it panics
Aborted == << "panic", "index out of bounds" >>

\* variant: topics[0] is compared with the signature hash before the topic
\* count is looked at
try_from_log_signature_first(kind, ev, n, l) ==
    IF index(l.topics, 0) = None THEN Aborted
    ELSE IF index(l.topics, 0)[1] # ev.hash THEN None
    ELSE IF Len(l.topics) # n THEN None
    ELSE LET d == decode_raw_log(ev, l.topics, l.data)
         IN  IF d = None THEN None ELSE Some(Event(kind, l.address, d[1]))
\* variant: topics[0] is not compared with the signature hash
try_from_log_unchecked(kind, ev, n, l) ==
    IF Len(l.topics) # n THEN None
    ELSE IF ~abi_decode_data(ev, l.data) THEN None
    ELSE Some(Event(kind, l.address,
                    [indexed |-> SubSeq(l.topics, 2, n), body |-> l.data]))
\* The shape shared by every try_from_log: the topic count n is compared
\* first, then topics[0], then the log is decoded.
try_from_log(kind, ev, n, l) ==
    IF Len(l.topics) # n THEN None
    ELSE IF index(l.topics, 0) = None THEN Aborted
    ELSE IF index(l.topics, 0)[1] # ev.hash THEN None
    ELSE LET d == decode_raw_log(ev, l.topics, l.data)
         IN  IF d = None THEN None ELSE Some(Event(kind, l.address, d[1]))

\* aave.rs
ParsedSupply_try_from_log(l)      == try_from_log("ParsedSupply", Aave_Supply, 4, l)
ParsedWithdraw_try_from_log(l)    == try_from_log("ParsedWithdraw", Aave_Withdraw, 4, l)
ParsedBorrow_try_from_log(l)      == try_from_log("ParsedBorrow", Aave_Borrow, 4, l)
ParsedRepay_try_from_log(l)       == try_from_log("ParsedRepay", Aave_Repay, 4, l)
ParsedLiquidation_try_from_log(l) ==
    try_from_log("ParsedLiquidation", Aave_LiquidationCall, 4, l)

\* morpho.rs
ParsedMorphoSupply_try_from_log(l) ==
    try_from_log("ParsedMorphoSupply", Morpho_Supply, 4, l)
ParsedMorphoWithdraw_try_from_log(l) ==
    try_from_log("ParsedMorphoWithdraw", Morpho_Withdraw, 4, l)
ParsedMorphoBorrow_try_from_log(l) ==
    try_from_log("ParsedMorphoBorrow", Morpho_Borrow, 4, l)
ParsedMorphoRepay_try_from_log(l) ==
    try_from_log("ParsedMorphoRepay", Morpho_Repay, 4, l)
ParsedMorphoSupplyCollateral_try_from_log(l) ==
    try_from_log("ParsedMorphoSupplyCollateral", Morpho_SupplyCollateral, 4, l)
ParsedMorphoWithdrawCollateral_try_from_log(l) ==
    try_from_log("ParsedMorphoWithdrawCollateral", Morpho_WithdrawCollateral, 4, l)
ParsedMorphoLiquidation_try_from_log(l) ==
    try_from_log("ParsedMorphoLiquidation", Morpho_Liquidate, 4, l)
ParsedMorphoCreateMarket_try_from_log(l) ==
    try_from_log("ParsedMorphoCreateMarket", Morpho_CreateMarket, 2, l)

\* chainlink.rs
ParsedAnswerUpdated_try_from_log(l) ==
    try_from_log("ParsedAnswerUpdated", AnswerUpdated, 3, l)
ParsedNewRound_try_from_log(l) ==
    try_from_log("ParsedNewRound", NewRound, 3, l)

\* univ3.rs: ParsedSwap::from_log compares topics.first() with the signature
\* hash and leaves the topic count to LogData::new and decode_log_data.
ParsedSwap_from_log(l) ==
    IF (IF l.topics = <<>> THEN None ELSE Some(l.topics[1])) # Some(Swap.hash) THEN None
    ELSE LET log_data == LogData_new(l.topics, l.data)
         IN  IF log_data = None THEN None
             ELSE LET d == decode_raw_log(Swap, log_data[1].topics, log_data[1].data)
                  IN  IF d = None THEN None
                      ELSE Some(Event("ParsedSwap", l.address, d[1]))

\* The decoders, by the name of the struct they build.
DecoderKinds ==
    { "ParsedSupply", "ParsedWithdraw", "ParsedBorrow", "ParsedRepay", "ParsedLiquidation",
      "ParsedMorphoSupply", "ParsedMorphoWithdraw", "ParsedMorphoBorrow",
      "ParsedMorphoRepay", "ParsedMorphoSupplyCollateral",
      "ParsedMorphoWithdrawCollateral", "ParsedMorphoLiquidation",
      "ParsedMorphoCreateMarket", "ParsedAnswerUpdated", "ParsedNewRound", "ParsedSwap" }

try_decode(k, l) ==
    CASE k = "ParsedSupply"      -> ParsedSupply_try_from_log(l)
      [] k = "ParsedWithdraw"    -> ParsedWithdraw_try_from_log(l)
      [] k = "ParsedBorrow"      -> ParsedBorrow_try_from_log(l)
      [] k = "ParsedRepay"       -> ParsedRepay_try_from_log(l)
      [] k = "ParsedLiquidation" -> ParsedLiquidation_try_from_log(l)
      [] k = "ParsedMorphoSupply"   -> ParsedMorphoSupply_try_from_log(l)
      [] k = "ParsedMorphoWithdraw" -> ParsedMorphoWithdraw_try_from_log(l)
      [] k = "ParsedMorphoBorrow"   -> ParsedMorphoBorrow_try_from_log(l)
      [] k = "ParsedMorphoRepay"    -> ParsedMorphoRepay_try_from_log(l)
      [] k = "ParsedMorphoSupplyCollateral" -> ParsedMorphoSupplyCollateral_try_from_log(l)
      [] k = "ParsedMorphoWithdrawCollateral" ->
             ParsedMorphoWithdrawCollateral_try_from_log(l)
      [] k = "ParsedMorphoLiquidation"  -> ParsedMorphoLiquidation_try_from_log(l)
      [] k = "ParsedMorphoCreateMarket" -> ParsedMorphoCreateMarket_try_from_log(l)
      [] k = "ParsedAnswerUpdated" -> ParsedAnswerUpdated_try_from_log(l)
      [] k = "ParsedNewRound"      -> ParsedNewRound_try_from_log(l)
      [] k = "ParsedSwap"          -> ParsedSwap_from_log(l)

\* variant: the events are collected in the reverse order of the logs
RECURSIVE filter_map_reversed(_, _)
filter_map_reversed(k, ls) ==
    IF ls = <<>> THEN <<>>
    ELSE filter_map_reversed(k, Tail(ls)) \o try_decode(k, Head(ls))

\* Parsed*::extract_all: logs.iter().filter_map(try_from_log).collect()
RECURSIVE filter_map(_, _)
filter_map(k, ls) ==
    IF ls = <<>> THEN <<>>
    ELSE try_decode(k, Head(ls)) \o filter_map(k, Tail(ls))

\* variant: an event equal to an earlier one is dropped
RECURSIVE filter_map_dedup(_, _, _)
filter_map_dedup(k, ls, seen) ==
    IF ls = <<>> THEN <<>>
    ELSE LET e == try_decode(k, Head(ls))
         IN  IF e = None \/ e[1] \in seen THEN filter_map_dedup(k, Tail(ls), seen)
             ELSE e \o filter_map_dedup(k, Tail(ls), seen \cup {e[1]})

extract_all_dedup(k, ls) == filter_map_dedup(k, ls, {})
\* Parsed*::extract_all
extract_all(k, ls) == filter_map(k, ls)

----------------------------------------------------------------------------
(* Inputs of the decoders and prefilters *)

ZeroWord      == <<0, 0, 0>>
\* keccak256("Transfer(address,address,uint256)"): an event nobody tracks
TransferTopic == <<56818, 21165, 7138>>
\* two untracked words that together set the three bloom bits of Swap
CollideA      == <<50208, 31225, 0>>
CollideB      == <<0, 0, 19043>>

Addresses == { "0xA", "0xB" }

TopicWords == RegisteredHashes \cup { TransferTopic, ZeroWord }

\* topic lists of every length up to MaxTopics: a first topic, then zero words
TopicList(h, n) == [i \in 1..n |-> IF i = 1 THEN h ELSE ZeroWord]
TopicLists == { <<>> } \cup { TopicList(h, n) : h \in TopicWords, n \in 1..MaxTopics }

\* payloads of every length up to MaxDataWords: zero words, at most one of
\* them replaced by a 129-bit or a 256-bit value
DataWith(n, j, w) == [i \in 1..n |-> IF i = j THEN w ELSE 0]
DataSet == { DataWith(n, j, w) : n \in 0..MaxDataWords, j \in 0..MaxDataWords,
                                  w \in { 129, 256 } }

LogSet == [address : { "0xA" }, topics : TopicLists, data : DataSet]

\* the log an emitter produces for event ev, every value zero
WellFormed(ev, a) ==
    [address |-> a, topics |-> TopicList(ev.hash, ev.topics),
     data |-> [i \in 1..Len(ev.body) |-> 0]]

SwapLog         == WellFormed(Swap, "0xA")
\* a Swap whose sqrtPriceX96 needs 129 bits (a price above 2^64)
SwapLogHighPrice ==
    [SwapLog EXCEPT !.data = DataWith(5, 3, 129)]
\* a Swap log carrying a fourth topic
SwapLogExtraTopic ==
    [SwapLog EXCEPT !.topics = TopicList(Swap.hash, 4)]
AnswerUpdatedLog == WellFormed(AnswerUpdated, "0xB")
\* an AnswerUpdated of another feed
AnswerUpdatedLogFeedA == WellFormed(AnswerUpdated, "0xA")
AnswerUpdatedLogShort ==
    [AnswerUpdatedLog EXCEPT !.topics = TopicList(AnswerUpdated.hash, 2)]
TransferLog     == [address |-> "0xB", topics |-> TopicList(TransferTopic, 3),
                    data |-> <<0>>]

SampleLogs == { SwapLog, SwapLogHighPrice, SwapLogExtraTopic, AnswerUpdatedLog,
                AnswerUpdatedLogShort, TransferLog,
                WellFormed(Aave_Supply, "0xA"), WellFormed(Morpho_CreateMarket, "0xB") }

SeqsUpTo(S, n) == UNION { [1..m -> S] : m \in 0..n }

BloomWords == RegisteredHashes \cup { TransferTopic, CollideA, CollideB }

----------------------------------------------------------------------------
(* The prefilters and decoders applied to bounded inputs *)

DefaultFlags ==
    [aave |-> AaveEvents_default, morpho |-> MorphoEvents_default,
     chainlink |-> ChainlinkEvents_default, univ3 |-> UniV3Events_default]
EmptyLog == [address |-> "0xA", topics |-> <<>>, data |-> <<>>]
NotDecoded   == [k \in DecoderKinds |-> None]
NotExtracted == [k \in DecoderKinds |-> <<>>]

DecodeIdle ==
    /\ op = "init" /\ bloom = Bloom_default /\ inserted = {} /\ flags = DefaultFlags
    /\ log = EmptyLog /\ decoded = NotDecoded /\ logs = <<>> /\ extracted = NotExtracted

\* Bloom::accrue(BloomInput::Hash(w)) while the bloom is being built
Accrue(w) ==
    /\ op \in { "init", "accrue" }
    /\ Cardinality(inserted) < MaxInserted
    /\ w \notin inserted
    /\ bloom' = accrue(bloom, w)
    /\ inserted' = inserted \cup { w }
    /\ op' = "accrue"
    /\ UNCHANGED <<flags, log, decoded, logs, extracted>>
    /\ UNCHANGED <<dispatchVars, ingestVars, streamVars, connVars>>

\* the four from_bloom prefilters on the bloom built so far
FromBloom ==
    /\ op \in { "init", "accrue" }
    /\ flags' = [aave      |-> AaveEvents_from_bloom(bloom),
                 morpho    |-> MorphoEvents_from_bloom(bloom),
                 chainlink |-> ChainlinkEvents_from_bloom(bloom),
                 univ3     |-> UniV3Events_from_bloom(bloom)]
    /\ op' = "from_bloom"
    /\ UNCHANGED <<bloom, inserted, log, decoded, logs, extracted>>
    /\ UNCHANGED <<dispatchVars, ingestVars, streamVars, connVars>>

\* every decoder on one log
TryFromLog(l) ==
    /\ op = "init"
    /\ log' = l
    /\ decoded' = [k \in DecoderKinds |-> try_decode(k, l)]
    /\ op' = "try_from_log"
    /\ UNCHANGED <<bloom, inserted, flags, logs, extracted>>
    /\ UNCHANGED <<dispatchVars, ingestVars, streamVars, connVars>>

\* every extract_all on one log slice
ExtractAll(ls) ==
    /\ op = "init"
    /\ logs' = ls
    /\ extracted' = [k \in DecoderKinds |-> extract_all(k, ls)]
    /\ op' = "extract_all"
    /\ UNCHANGED <<bloom, inserted, flags, log, decoded>>
    /\ UNCHANGED <<dispatchVars, ingestVars, streamVars, connVars>>

----------------------------------------------------------------------------
(* flashblocks.rs: receipts, metadata, flashblock *)

\* A receipt is [logs_bloom : Option<Bloom>, logs : Vec<ReceiptLog>]; the
\* metadata maps a transaction hash to its receipt.

\* variant: no bloom test
may_have_swap_always(r) == TRUE
\* FlashblockReceipt::may_have_swap
may_have_swap(r) ==
    IF r.logs_bloom = None THEN TRUE
    ELSE contains_input(r.logs_bloom[1], Swap.hash)

\* variant: a receipt without a bloom is skipped
may_have_answer_updated_fail_closed(r) ==
    IF r.logs_bloom = None THEN FALSE
    ELSE contains_input(r.logs_bloom[1], AnswerUpdated.hash)
\* FlashblockReceipt::may_have_answer_updated
may_have_answer_updated(r) ==
    IF r.logs_bloom = None THEN TRUE
    ELSE contains_input(r.logs_bloom[1], AnswerUpdated.hash)

\* The orders in which a HashMap with key set S may yield its values.
Orders(S) == { o \in [1..Cardinality(S) -> S] : Range(o) = S }

\* receipts.values().filter(may_have_swap).flat_map(extract_all).collect(),
\* the map iterated in order ord
FlashblockMetadata_extract_swaps(m, ord) ==
    Concat([i \in 1..Len(ord) |->
              IF may_have_swap(m.receipts[ord[i]])
              THEN extract_all("ParsedSwap", m.receipts[ord[i]].logs)
              ELSE <<>>])

FlashblockMetadata_extract_answer_updates(m, ord) ==
    Concat([i \in 1..Len(ord) |->
              IF may_have_answer_updated(m.receipts[ord[i]])
              THEN extract_all("ParsedAnswerUpdated", m.receipts[ord[i]].logs)
              ELSE <<>>])

\* metadata.as_ref().map(extract).unwrap_or_default()
Flashblock_extract_swaps(f, ord) ==
    IF f.metadata = None THEN <<>>
    ELSE FlashblockMetadata_extract_swaps(f.metadata[1], ord)

Flashblock_extract_answer_updates(f, ord) ==
    IF f.metadata = None THEN <<>>
    ELSE FlashblockMetadata_extract_answer_updates(f.metadata[1], ord)

ReceiptKeys(f) == IF f.metadata = None THEN {} ELSE DOMAIN f.metadata[1].receipts

----------------------------------------------------------------------------
(* univ3.rs: pool state of a swap *)

sqrt_price_x96(swap) == swap.body[3]

pool_state(swap) ==
    [sqrt_price_x96 |-> swap.body[3], tick |-> swap.body[5], liquidity |-> swap.body[4]]

\* Uint::to::<u128>(): the value if it fits 128 bits; the conversion panics
\* otherwise (None here).
to_u128(w) == IF w <= 128 THEN Some(w) ELSE None

\* (sqrt_price_x96 / 2^96)^2 as f64, given by its binary order of magnitude;
\* None when the narrowing to u128 panics.
price_0_in_1(state) ==
    LET n == to_u128(state.sqrt_price_x96)
    IN  IF n = None THEN None ELSE Some(2 * (n[1] - 96))

----------------------------------------------------------------------------
(* streams: envelope and sinks *)

StreamOutputs == { "Print", "WebSocket", "Sse" }

\* StreamEnvelope::from_type_name: the label is the payload's type name
StreamEnvelope_from_type_name(data_type, data) == [data_type |-> data.kind, data |-> data]
\* StreamEnvelope::new
StreamEnvelope_new(data_type, data) == [data_type |-> data_type, data |-> data]

\* a payload whose Serialize implementation returns an error
Unserializable == [kind |-> "Unserializable"]

\* serde_json::to_string of an envelope: {"type": <label>, "data": <payload>},
\* or the error of the payload's Serialize
to_string(envelope) ==
    IF envelope.data.kind = "Unserializable" THEN None
    ELSE Some([type |-> envelope.data_type, data |-> envelope.data])

\* DataStream::send_auto: the label is the payload's type name
send_auto(s, data_type, data) == to_string(StreamEnvelope_new(data.kind, data))
\* DataStream::send of every sink: wrap, serialize, hand to the sink (stdout
\* for Print, the broadcast channel otherwise). The result is the publish
\* made, or None for a serialization error.
send(s, data_type, data) == to_string(StreamEnvelope_new(data_type, data))

----------------------------------------------------------------------------
(* Flashblocks handed to the dispatch scheduler and to the ingestion loop *)

TxHashes == { "0xt1", "0xt2" }

DispatchLogs ==
    { SwapLog, SwapLogHighPrice, AnswerUpdatedLog, AnswerUpdatedLogFeedA, TransferLog }

\* the bloom of a receipt's logs (the bits of every topic)
BloomOf(ls) ==
    UNION { UNION { BloomBits(t) : t \in Range(l.topics) } : l \in Range(ls) }

\* a receipt carries no bloom, the bloom of its logs, or an empty bloom
ReceiptsOf(ls) ==
    { [logs_bloom |-> b, logs |-> ls] :
        b \in { None, Some(BloomOf(ls)), Some(Bloom_default) } }

ReceiptSet(L) == UNION { ReceiptsOf(ls) : ls \in SeqsUpTo(L, MaxFbLogs) }

RECURSIVE SumLogs(_, _)
SumLogs(rs, D) ==
    IF D = {} THEN 0
    ELSE LET k == CHOOSE x \in D : TRUE
         IN  Len(rs[k].logs) + SumLogs(rs, D \ { k })

\* the receipt maps over the key sets KS whose logs, drawn from L, number at
\* most MaxFbLogs
ReceiptMaps(L, KS) ==
    { rs \in UNION { [D -> ReceiptSet(L)] : D \in KS } :
        SumLogs(rs, DOMAIN rs) <= MaxFbLogs }

NoMetadata == [metadata |-> None]

Flashblocks(L, KS) ==
    { NoMetadata } \cup
    { [metadata |-> Some([receipts |-> rs, block_number |-> 1])] :
        rs \in ReceiptMaps(L, KS) }

\* dispatched flashblocks: up to two receipts
FlashblockSet == Flashblocks(DispatchLogs, { {}, { "0xt1" }, TxHashes })

\* flashblocks of upstream messages: up to one receipt
IngestLogs == { SwapLog, SwapLogHighPrice, AnswerUpdatedLog }
IngestFlashblocks == Flashblocks(IngestLogs, { {}, { "0xt1" } })

----------------------------------------------------------------------------
(* protocols/mod.rs: process_all_protocols and the handlers *)

ALL_HANDLERS == << "UniV3Handler", "ChainlinkHandler" >>
Handlers     == Range(ALL_HANDLERS)

DispatchIdle ==
    /\ fb = NoMetadata /\ sink = "Print" /\ caller = "idle" /\ spawned = 0
    /\ hpc = [h \in Handlers |-> "unspawned"]
    /\ hevents = [h \in Handlers |-> <<>>]
    /\ hidx = [h \in Handlers |-> 1]
    /\ published = <<>>

\* variant: the scope does not wait for its tasks
scope_detached(pcs) == TRUE
\* rayon::scope returns (or resumes a task's panic) once every task spawned
\* in it has run to its end.
scope_complete(pcs) == \A h \in Handlers : pcs[h] \in { "done", "panicked" }

\* process_all_protocols is entered: rayon::scope starts its body
Call ==
    /\ caller = "idle"
    /\ caller' = "scope"
    /\ UNCHANGED <<fb, sink, spawned, hpc, hevents, hidx, published>>
    /\ UNCHANGED <<decodeVars, ingestVars, streamVars, connVars>>

\* the body's for loop spawns the next handler of ALL_HANDLERS
Spawn ==
    /\ caller = "scope"
    /\ spawned < Len(ALL_HANDLERS)
    /\ spawned' = spawned + 1
    /\ hpc' = [hpc EXCEPT ![ALL_HANDLERS[spawned + 1]] = "spawned"]
    /\ UNCHANGED <<fb, sink, caller, hevents, hidx, published>>
    /\ UNCHANGED <<decodeVars, ingestVars, streamVars, connVars>>

\* the scope ends: process_all_protocols returns, or unwinds with the panic
\* of a handler
Join ==
    /\ caller = "scope"
    /\ spawned = Len(ALL_HANDLERS)
    /\ scope_complete(hpc)
    /\ caller' = IF \E h \in Handlers : hpc[h] = "panicked" THEN "panicked"
                 ELSE "returned"
    /\ UNCHANGED <<fb, sink, spawned, hpc, hevents, hidx, published>>
    /\ UNCHANGED <<decodeVars, ingestVars, streamVars, connVars>>

\* UniV3Handler::process: extract, return early on nothing
UniV3Extract(ord) ==
    /\ hpc["UniV3Handler"] = "spawned"
    /\ LET swaps == Flashblock_extract_swaps(fb, ord)
       IN  /\ hevents' = [hevents EXCEPT !["UniV3Handler"] = swaps]
           /\ hpc' = [hpc EXCEPT !["UniV3Handler"] =
                        IF swaps = <<>> THEN "done" ELSE "loop"]
    /\ UNCHANGED <<fb, sink, caller, spawned, hidx, published>>
    /\ UNCHANGED <<decodeVars, ingestVars, streamVars, connVars>>

\* one iteration of its for loop: log the pool state (its price), send
UniV3Iterate ==
    /\ hpc["UniV3Handler"] = "loop"
    /\ LET swap  == hevents["UniV3Handler"][hidx["UniV3Handler"]]
           state == pool_state(swap)
       IN  IF price_0_in_1(state) = None
           THEN /\ hpc' = [hpc EXCEPT !["UniV3Handler"] = "panicked"]
                /\ UNCHANGED <<hidx, published>>
           ELSE LET sent == send(sink, "UniV3_swap", swap)
                IN  /\ published' = IF sent = None THEN published
                                    ELSE Append(published, sent[1])
                    /\ hidx' = [hidx EXCEPT !["UniV3Handler"] = @ + 1]
                    /\ hpc' = [hpc EXCEPT !["UniV3Handler"] =
                                 IF hidx["UniV3Handler"] = Len(hevents["UniV3Handler"])
                                 THEN "done" ELSE "loop"]
    /\ UNCHANGED <<fb, sink, caller, spawned, hevents>>
    /\ UNCHANGED <<decodeVars, ingestVars, streamVars, connVars>>

\* ChainlinkHandler::process: extract, return early on nothing
ChainlinkExtract(ord) ==
    /\ hpc["ChainlinkHandler"] = "spawned"
    /\ LET oracle_updates == Flashblock_extract_answer_updates(fb, ord)
       IN  /\ hevents' = [hevents EXCEPT !["ChainlinkHandler"] = oracle_updates]
           /\ hpc' = [hpc EXCEPT !["ChainlinkHandler"] =
                        IF oracle_updates = <<>> THEN "done" ELSE "loop"]
    /\ UNCHANGED <<fb, sink, caller, spawned, hidx, published>>
    /\ UNCHANGED <<decodeVars, ingestVars, streamVars, connVars>>

\* one iteration of its for loop: send
ChainlinkIterate ==
    /\ hpc["ChainlinkHandler"] = "loop"
    /\ LET update == hevents["ChainlinkHandler"][hidx["ChainlinkHandler"]]
           sent   == send(sink, "Chainlink_answer_updated", update)
       IN  /\ published' = IF sent = None THEN published
                           ELSE Append(published, sent[1])
           /\ hidx' = [hidx EXCEPT !["ChainlinkHandler"] = @ + 1]
           /\ hpc' = [hpc EXCEPT !["ChainlinkHandler"] =
                        IF hidx["ChainlinkHandler"] = Len(hevents["ChainlinkHandler"])
                        THEN "done" ELSE "loop"]
    /\ UNCHANGED <<fb, sink, caller, spawned, hevents>>
    /\ UNCHANGED <<decodeVars, ingestVars, streamVars, connVars>>

----------------------------------------------------------------------------
(* src/main.rs: the ingestion loop *)

\* A text is the JSON of a flashblock or something that is not; a binary
\* frame is the Brotli compression of a text or something that is not.
Json(f)      == << "json", f >>
Garbage      == << "garbage" >>
Brotli(t)    == << "brotli", t >>
Corrupt      == << "corrupt" >>

Texts    == { Json(f) : f \in IngestFlashblocks } \cup { Garbage }
Binaries == { Brotli(t) : t \in Texts } \cup { Corrupt }

\* serde_json::from_str::<Flashblock>
from_str(text) == IF text[1] = "json" THEN Some(text[2]) ELSE None

\* utils.rs
decompress_brotli(data) == IF data[1] = "brotli" THEN Some(data[2]) ELSE None

\* for swap in &swaps { debug!("Swap"); info!(price_0_in_1 = ..) }: the
\* diagnostics written, and whether a price computation panicked
RECURSIVE log_swaps(_)
log_swaps(swaps) ==
    IF swaps = <<>> THEN [crashed |-> FALSE, diag |-> <<>>]
    ELSE IF price_0_in_1(pool_state(Head(swaps))) = None
         THEN [crashed |-> TRUE, diag |-> << "Swap" >>]
         ELSE LET rest == log_swaps(Tail(swaps))
              IN  [crashed |-> rest.crashed,
                   diag |-> << "Swap", "Pool state after swap" >> \o rest.diag]

\* variant: a flashblock without metadata is taken for one without events
handle_message_no_guard(text, ord) ==
    IF from_str(text) = None
    THEN [crashed |-> FALSE, diag |-> << "Failed to parse Flashblock JSON" >>]
    ELSE [crashed |-> FALSE, diag |-> << "Flashblock" >>]
\* variant: the parse result is unwrapped
handle_message_unwrap(text, ord) ==
    IF from_str(text) = None
    THEN [crashed |-> TRUE, diag |-> <<>>]
    ELSE [crashed |-> FALSE, diag |-> << "Flashblock" >>]
\* handle_message, the receipts map iterated in order ord
handle_message(text, ord) ==
    LET parsed == from_str(text)
    IN  IF parsed = None
        THEN [crashed |-> FALSE, diag |-> << "Failed to parse Flashblock JSON" >>]
        ELSE IF parsed[1].metadata = None
        THEN [crashed |-> FALSE, diag |-> << "Flashblock (no block_number)" >>]
        ELSE LET swaps == Flashblock_extract_swaps(parsed[1], ord)
             IN  IF swaps = <<>>
                 THEN [crashed |-> FALSE, diag |-> << "Flashblock" >>]
                 ELSE LET l == log_swaps(swaps)
                      IN  [crashed |-> l.crashed,
                           diag |-> << "Flashblock", "UniV3 Swaps detected" >> \o l.diag]

\* the receipts of a text, if it parses to a flashblock with metadata
TextKeys(text) ==
    IF from_str(text) = None THEN {} ELSE ReceiptKeys(from_str(text)[1])

BinaryKeys(bin) ==
    IF decompress_brotli(bin) = None THEN {} ELSE TextKeys(decompress_brotli(bin)[1])

NoMessage == << "none" >>

IngestIdle ==
    /\ loop = "running" /\ done = FALSE /\ msg = NoMessage /\ handled = 0 /\ diag = <<>>
    /\ iter = <<>> /\ journal = <<>>

\* the loop body of message n ran from its match to its end in one step
Whole(n) == journal \o << << "begin", n >>, << "end", n >> >>

\* variant: the flag is not looked at and m goes through the match
Shutdown_ignored(m) ==
    /\ diag' = << "Received control frame" >>
    /\ msg' = m
    /\ handled' = handled + 1
    /\ journal' = Whole(handled + 1)
    /\ UNCHANGED <<loop, done, iter>>
\* read.next() yielded m; the flag is loaded before the match
Shutdown(m) ==
    /\ done
    /\ loop' = "ended"
    /\ diag' = << "Shutting down stream reader.", "Stream ended" >>
    /\ msg' = m
    /\ handled' = handled + 1
    /\ UNCHANGED <<done, iter, journal>>

\* variant: a message is read while the previous one is still being handled
Reading_overlapped == loop \in { "running", "handling" } /\ handled < MaxMessages
\* the loop is at read.next().await
Reading == loop = "running" /\ handled < MaxMessages

\* the Ctrl-C task stores the flag
CtrlC ==
    /\ UNCHANGED <<decodeVars, dispatchVars, streamVars, connVars>>
    /\ loop \in { "running", "handling" }
    /\ ~done
    /\ done' = TRUE
    /\ UNCHANGED <<loop, msg, iter, handled, diag, journal>>

\* handle_message(&text) is called: the loop body of message handled + 1
Handle(m, text, ord) ==
    /\ loop' = "handling"
    /\ msg' = << m[1], m[2], text >>
    /\ iter' = ord
    /\ handled' = handled + 1
    /\ journal' = Append(journal, << "begin", handled + 1 >>)
    /\ UNCHANGED <<done, diag>>

\* handle_message returns, or panics, and with it the loop body
HandleReturn ==
    /\ UNCHANGED <<decodeVars, dispatchVars, streamVars, connVars>>
    /\ loop = "handling"
    /\ LET r == handle_message(msg[3], iter)
       IN  /\ loop' = IF r.crashed THEN "crashed" ELSE "running"
           /\ diag' = r.diag
           /\ journal' = IF r.crashed THEN journal
                         ELSE Append(journal, << "end", handled >>)
    /\ UNCHANGED <<done, msg, iter, handled>>

\* Ok(Message::Text(text))
RecvText(text, ord) ==
    /\ UNCHANGED <<decodeVars, dispatchVars, streamVars, connVars>>
    /\ Reading
    /\ IF done THEN Shutdown(<< "Text", text >>)
       ELSE Handle(<< "Text", text >>, text, ord)

\* Ok(Message::Binary(bin))
RecvBinary(bin, ord) ==
    /\ UNCHANGED <<decodeVars, dispatchVars, streamVars, connVars>>
    /\ Reading
    /\ IF done THEN Shutdown(<< "Binary", bin >>)
       ELSE IF decompress_brotli(bin) = None
       THEN /\ diag' = << "Failed to decompress binary frame", "Binary frame" >>
            /\ msg' = << "Binary", bin >>
            /\ handled' = handled + 1
            /\ journal' = Whole(handled + 1)
            /\ UNCHANGED <<loop, done, iter>>
       ELSE Handle(<< "Binary", bin >>, decompress_brotli(bin)[1], ord)

\* Ok(Message::Ping(_)) | Ok(Message::Pong(_)) | Ok(Message::Frame(_))
RecvControl(kind) ==
    /\ UNCHANGED <<decodeVars, dispatchVars, streamVars, connVars>>
    /\ Reading
    /\ IF done THEN Shutdown(<< kind >>)
       ELSE /\ diag' = << "Received control frame" >>
            /\ msg' = << kind >>
            /\ handled' = handled + 1
            /\ journal' = Whole(handled + 1)
            /\ UNCHANGED <<loop, done, iter>>

\* Ok(Message::Close(frame))
RecvClose ==
    /\ UNCHANGED <<decodeVars, dispatchVars, streamVars, connVars>>
    /\ Reading
    /\ IF done THEN Shutdown(<< "Close" >>)
       ELSE /\ loop' = "ended"
            /\ diag' = << "WebSocket closed", "Stream ended" >>
            /\ msg' = << "Close" >>
            /\ handled' = handled + 1
            /\ journal' = Whole(handled + 1)
            /\ UNCHANGED <<done, iter>>

\* Err(e)
RecvError ==
    /\ UNCHANGED <<decodeVars, dispatchVars, streamVars, connVars>>
    /\ Reading
    /\ IF done THEN Shutdown(<< "Err" >>)
       ELSE /\ loop' = "ended"
            /\ diag' = << "WebSocket read error", "Stream ended" >>
            /\ msg' = << "Err" >>
            /\ handled' = handled + 1
            /\ journal' = Whole(handled + 1)
            /\ UNCHANGED <<done, iter>>

\* read.next() yields None: the while let ends
StreamEnd ==
    /\ UNCHANGED <<decodeVars, dispatchVars, streamVars, connVars>>
    /\ Reading
    /\ loop' = "ended"
    /\ diag' = << "Stream ended" >>
    /\ UNCHANGED <<done, msg, iter, handled, journal>>

----------------------------------------------------------------------------
(* crates/streams: the broadcast channel behind WebSocketServer and SseServer *)

Clients == 1..MaxClients

\* channel_capacity values given to new()
Capacities == { 2, 3 }

\* the payload of the sinks' unit tests
TestData == [kind |-> "TestData", message |-> "Hello"]
Payloads == { TestData, Unserializable }

\* variant: the buffer has exactly the requested number of slots
next_power_of_two_exact(n) == n
\* usize::next_power_of_two, as broadcast::channel rounds its capacity
next_power_of_two(n) == CHOOSE p \in { 1, 2, 4, 8, 16 } : p >= n /\ p < 2 * n

\* broadcast::channel(capacity): a ring of slots, slot i at position i - len;
\* the Receiver it returns is dropped at once (let (broadcast_tx, _) = ..)
broadcast_channel(cap) ==
    LET len == next_power_of_two(cap)
    IN  [buffer |-> [i \in 0..len - 1 |-> [pos |-> i - len, val |-> None]],
         tail   |-> [pos |-> 0, rx_cnt |-> 0]]

BufferLen(ch) == Cardinality(DOMAIN ch.buffer)

\* the value stored by a send
Stored(ch, value) ==
    [buffer |-> [ch.buffer EXCEPT ![ch.tail.pos % BufferLen(ch)] =
                    [pos |-> ch.tail.pos, val |-> Some(value)]],
     tail   |-> [ch.tail EXCEPT !.pos = @ + 1]]

\* variant: a send waits while a Receiver has a full buffer of unread values
broadcast_send_backpressure(ch, value) ==
    IF ch.tail.rx_cnt = 0 THEN [result |-> "Err", ch |-> ch]
    ELSE IF \E c \in Clients : /\ rxs[c].state = "open"
                               /\ ch.tail.pos - rxs[c].next >= BufferLen(ch)
    THEN [result |-> "Pending", ch |-> ch]
    ELSE [result |-> "Ok", ch |-> Stored(ch, value)]
\* Sender::send: an error without Receivers, else the value overwrites the
\* slot at the tail
broadcast_send(ch, value) ==
    IF ch.tail.rx_cnt = 0 THEN [result |-> "Err", ch |-> ch]
    ELSE [result |-> "Ok", ch |-> Stored(ch, value)]

\* variant: a new Receiver starts at the oldest value the buffer retains
subscribe_replay(ch) ==
    [rx |-> [state |-> "open",
             next |-> IF ch.tail.pos > BufferLen(ch)
                      THEN ch.tail.pos - BufferLen(ch) ELSE 0],
     ch |-> [ch EXCEPT !.tail.rx_cnt = @ + 1]]
\* Sender::subscribe: a new Receiver starts at the tail
subscribe(ch) ==
    [rx |-> [state |-> "open", next |-> ch.tail.pos],
     ch |-> [ch EXCEPT !.tail.rx_cnt = @ + 1]]

\* variant: the slot is read whatever position it holds
recv_unchecked(ch, rx) ==
    LET slot == ch.buffer[rx.next % BufferLen(ch)]
    IN  IF slot.val = None \/ rx.next >= ch.tail.pos
        THEN [result |-> "Empty", next |-> rx.next]
        ELSE [result |-> "Ok", val |-> slot.val[1], next |-> rx.next + 1]
\* variant: the cursor stays on a value that was received
recv_no_advance(ch, rx) ==
    LET slot == ch.buffer[rx.next % BufferLen(ch)]
    IN  IF slot.pos = rx.next
        THEN [result |-> "Ok", val |-> slot.val[1], next |-> rx.next]
        ELSE [result |-> "Empty", next |-> rx.next]
\* variant: a receiver that is behind takes the newest value and skips the
\* rest without reporting a lag
recv_latest(ch, rx) ==
    LET len  == BufferLen(ch)
        last == ch.buffer[(ch.tail.pos + len - 1) % len]
    IN  IF rx.next >= ch.tail.pos
        THEN [result |-> "Empty", next |-> rx.next]
        ELSE [result |-> "Ok", val |-> last.val[1], next |-> ch.tail.pos]
\* Receiver::recv, one poll: the value at the cursor, Empty (the task waits),
\* or Lagged(missed) with the cursor moved to the oldest retained value
recv(ch, rx) ==
    LET len  == BufferLen(ch)
        slot == ch.buffer[rx.next % len]
    IN  IF slot.pos = rx.next
        THEN [result |-> "Ok", val |-> slot.val[1], next |-> rx.next + 1]
        ELSE IF slot.pos + len = rx.next
        THEN [result |-> "Empty", next |-> rx.next]
        ELSE LET next   == ch.tail.pos - len
                 missed == next - rx.next
             IN  IF missed = 0
                 THEN [result |-> "Ok", val |-> slot.val[1], next |-> rx.next + 1]
                 ELSE [result |-> "Lagged", missed |-> missed, next |-> next]

\* dropping a Receiver
drop_receiver(ch) == [ch EXCEPT !.tail.rx_cnt = @ - 1]

\* variant: the error of the channel's send is returned to the caller
WebSocketServer_send_envelope_strict(ch, n, envelope) ==
    LET json == to_string(envelope)
    IN  IF json = None THEN [result |-> "Err", ch |-> ch]
        ELSE broadcast_send(ch, [n |-> n, json |-> json[1]])
\* WebSocketServer::send_envelope, the n-th send of the server: Err for a
\* serialization error; otherwise the json goes to the channel and both
\* outcomes of its send are Ok. A send that has not returned is Pending.
WebSocketServer_send_envelope(ch, n, envelope) ==
    LET json == to_string(envelope)
    IN  IF json = None THEN [result |-> "Err", ch |-> ch]
        ELSE LET r == broadcast_send(ch, [n |-> n, json |-> json[1]])
             IN  [result |-> IF r.result = "Pending" THEN "Pending" ELSE "Ok",
                  ch |-> r.ch]

\* SseServer::send_envelope
SseServer_send_envelope(ch, n, envelope) ==
    LET json == to_string(envelope)
    IN  IF json = None THEN [result |-> "Err", ch |-> ch]
        ELSE LET r == broadcast_send(ch, [n |-> n, json |-> json[1]])
             IN  [result |-> IF r.result = "Pending" THEN "Pending" ELSE "Ok",
                  ch |-> r.ch]

\* WebSocketServer::send / SseServer::send
server_send(srv, ch, n, data_type, data) ==
    IF srv = "WebSocket"
    THEN WebSocketServer_send_envelope(ch, n, StreamEnvelope_new(data_type, data))
    ELSE SseServer_send_envelope(ch, n, StreamEnvelope_new(data_type, data))

\* labels and payloads given to send
Labels == { "TestData", "ParsedSwap" }
ParsedSwap == [kind |-> "ParsedSwap", amount0 |-> 1]
SendPayloads == Payloads \cup { ParsedSwap }

\* PrintStream::send_envelope: the json goes to stdout with println!, or the
\* serialization error is returned
PrintStream_send_envelope(envelope) ==
    LET json == to_string(envelope)
    IN  IF json = None THEN [result |-> "Err", printed |-> <<>>]
        ELSE [result |-> "Ok", printed |-> << json[1] >>]

\* PrintStream::send
PrintStream_send(data_type, data) ==
    PrintStream_send_envelope(StreamEnvelope_new(data_type, data))

\* WebSocketServer::send
WebSocketServer_send(ch, n, data_type, data) ==
    WebSocketServer_send_envelope(ch, n, StreamEnvelope_new(data_type, data))

\* SseServer::send
SseServer_send(ch, n, data_type, data) ==
    SseServer_send_envelope(ch, n, StreamEnvelope_new(data_type, data))

\* what a send of a server leaves: its result and the channel; nothing goes
\* to stdout
OfServer(r) == [result |-> r.result, ch |-> r.ch, printed |-> <<>>]
\* what a send of the print sink leaves: the channel is not its own
OfPrint(r, ch) == [result |-> r.result, ch |-> ch, printed |-> r.printed]

\* <StreamOutput as DataStream>::send_envelope
StreamOutput_send_envelope(kind, ch, n, envelope) ==
    CASE kind = "Print"     -> OfPrint(PrintStream_send_envelope(envelope), ch)
      [] kind = "WebSocket" -> OfServer(WebSocketServer_send_envelope(ch, n, envelope))
      [] kind = "Sse"       -> OfServer(SseServer_send_envelope(ch, n, envelope))

\* <StreamOutput as DataStream>::send
StreamOutput_send(kind, ch, n, data_type, data) ==
    CASE kind = "Print"     -> OfPrint(PrintStream_send(data_type, data), ch)
      [] kind = "WebSocket" -> OfServer(WebSocketServer_send(ch, n, data_type, data))
      [] kind = "Sse"       -> OfServer(SseServer_send(ch, n, data_type, data))

\* what a call of the sink left behind: published is the text on stdout, npub
\* the sends that returned Ok
Sent(r) ==
    /\ r.result # "Pending"
    /\ chan' = r.ch
    /\ result' = r.result
    /\ published' = published \o r.printed
    /\ npub' = IF r.result = "Err" THEN npub ELSE npub + 1
    /\ UNCHANGED <<server, capacity, rxs, delivered, lagged, since>>
    /\ UNCHANGED <<fb, sink, caller, spawned, hpc, hevents, hidx>>
    /\ UNCHANGED <<decodeVars, ingestVars, connVars>>

\* output.send(data_type, &data)
SinkSend(data_type, data) ==
    /\ npub < MaxConnSends
    /\ Sent(StreamOutput_send(server, chan, npub + 1, data_type, data))

\* output.send_envelope(&envelope)
SinkSendEnvelope(envelope) ==
    /\ npub < MaxConnSends
    /\ Sent(StreamOutput_send_envelope(server, chan, npub + 1, envelope))

NoReceiver == [state |-> "none", next |-> 0]

StreamIdle ==
    /\ server = "WebSocket" /\ capacity = 2
    /\ chan = broadcast_channel(2)
    /\ rxs = [c \in Clients |-> NoReceiver]
    /\ npub = 0 /\ result = "none"
    /\ delivered = [c \in Clients |-> <<>>]
    /\ lagged = [c \in Clients |-> <<>>]
    /\ since = [c \in Clients |-> 0]

\* a send of the publisher; npub counts the messages that were serialized
\* and handed to the channel
Publish(data) ==
    /\ npub < MaxPublish
    /\ LET r == server_send(server, chan, npub + 1, data.kind, data)
       IN  /\ r.result # "Pending"
           /\ chan' = r.ch
           /\ result' = r.result
           /\ npub' = IF r.result = "Err" THEN npub ELSE npub + 1
    /\ UNCHANGED <<server, capacity, rxs, delivered, lagged, since>>
    /\ UNCHANGED <<decodeVars, dispatchVars, ingestVars, connVars>>

\* a connection gets its Receiver: broadcast_tx.subscribe() in the accept
\* loop (WebSocket) or in handle_request (SSE). Connections are numbered in
\* the order they are accepted.
Subscribe(c) ==
    /\ rxs[c].state = "none"
    /\ \A d \in Clients : d < c => rxs[d].state # "none"
    /\ LET s == subscribe(chan)
       IN  /\ rxs' = [rxs EXCEPT ![c] = s.rx]
           /\ chan' = s.ch
    /\ since' = [since EXCEPT ![c] = npub]
    /\ UNCHANGED <<server, capacity, npub, result, delivered, lagged>>
    /\ UNCHANGED <<decodeVars, dispatchVars, ingestVars, connVars>>

\* the record kept of a connection (what it was sent, the lags it logged,
\* when it subscribed) ends with the connection
Forgotten(c) ==
    /\ delivered' = [delivered EXCEPT ![c] = <<>>]
    /\ lagged' = [lagged EXCEPT ![c] = <<>>]
    /\ since' = [since EXCEPT ![c] = 0]

\* a task holds the write guard of the client registry: it is between
\* clients.write().await and the end of that statement. The task is the one
\* serving connection c (the accept loop until it has spawned it) or the
\* clean-up task of the SSE connection c.
ServingHolds(c) == conns[c].phase \in { "inserting", "removing" }
CleanupHolds(c) == conns[c].timer = "removing"
Writer(c) == ServingHolds(c) \/ CleanupHolds(c)
LockHeld == \E c \in Clients : Writer(c)

\* variant: a delivery first takes the read lock of the registry
Deliver_under_read_lock(c) ==
    /\ ~LockHeld
    /\ rxs[c].state = "open"
    /\ LET r == recv(chan, rxs[c])
       IN  /\ r.result = "Ok"
           /\ rxs' = [rxs EXCEPT ![c].next = r.next]
           /\ delivered' = [delivered EXCEPT ![c] = Append(@, r.val)]
    /\ UNCHANGED <<server, capacity, chan, npub, result, lagged, since>>
    /\ UNCHANGED <<decodeVars, dispatchVars, ingestVars, connVars>>
\* recv yields a message and the write to the connection succeeds
Deliver(c) ==
    /\ rxs[c].state = "open"
    /\ LET r == recv(chan, rxs[c])
       IN  /\ r.result = "Ok"
           /\ rxs' = [rxs EXCEPT ![c].next = r.next]
           /\ delivered' = [delivered EXCEPT ![c] = Append(@, r.val)]
    /\ UNCHANGED <<server, capacity, chan, npub, result, lagged, since>>
    /\ UNCHANGED <<decodeVars, dispatchVars, ingestVars, connVars>>

\* recv yields a message and the write fails: the connection's task ends and
\* its Receiver is dropped
WriteFail(c) ==
    /\ rxs[c].state = "open"
    /\ LET r == recv(chan, rxs[c])
       IN  /\ r.result = "Ok"
           /\ rxs' = [rxs EXCEPT ![c] = [state |-> "closed", next |-> 0]]
    /\ chan' = drop_receiver(chan)
    /\ Forgotten(c)
    /\ UNCHANGED <<server, capacity, npub, result>>
    /\ UNCHANGED <<decodeVars, dispatchVars, ingestVars, connVars>>

\* recv yields Lagged(count): warn!, and the loop (the stream) goes on
Lag(c) ==
    /\ rxs[c].state = "open"
    /\ LET r == recv(chan, rxs[c])
       IN  /\ r.result = "Lagged"
           /\ rxs' = [rxs EXCEPT ![c].next = r.next]
           /\ lagged' = [lagged EXCEPT ![c] = Append(@, r.missed)]
    /\ UNCHANGED <<server, capacity, chan, npub, result, delivered, since>>
    /\ UNCHANGED <<decodeVars, dispatchVars, ingestVars, connVars>>

\* recv yields a message and write.send(...).await never completes: the peer
\* of a WebSocket connection has stopped reading and its socket stays open.
\* The task stays suspended inside the select! branch, holding its Receiver;
\* the message it took is not written.
Stall(c) ==
    /\ server = "WebSocket"
    /\ rxs[c].state = "open"
    /\ LET r == recv(chan, rxs[c])
       IN  /\ r.result = "Ok"
           /\ rxs' = [rxs EXCEPT ![c] = [state |-> "stalled", next |-> r.next]]
    /\ UNCHANGED <<server, capacity, chan, npub, result, delivered, lagged, since>>
    /\ UNCHANGED <<decodeVars, dispatchVars, ingestVars, connVars>>

\* the peer closes or its read fails: the task ends, the Receiver is dropped
Disconnect(c) ==
    /\ rxs[c].state = "open"
    /\ rxs' = [rxs EXCEPT ![c] = [state |-> "closed", next |-> 0]]
    /\ chan' = drop_receiver(chan)
    /\ Forgotten(c)
    /\ UNCHANGED <<server, capacity, npub, result>>
    /\ UNCHANGED <<decodeVars, dispatchVars, ingestVars, connVars>>

----------------------------------------------------------------------------
(* crates/streams: start(), the accept loop, the registry of clients and   *)
(* the life of one connection                                              *)

\* variant: the counter is read and left as it is
fetch_add_stale(counter) == [id |-> counter, next |-> counter]
\* next_client_id.fetch_add(1, Ordering::SeqCst)
fetch_add(counter) == [id |-> counter, next |-> counter + 1]

\* HashMap::insert on the registry: client_id -> the connection's address
insert(map, client_id, addr) ==
    [k \in DOMAIN map \cup { client_id } |-> IF k = client_id THEN addr ELSE map[k]]

\* variant: the removal empties the map
remove_cleared(map, client_id) == << >>
\* HashMap::remove
remove(map, client_id) == [k \in DOMAIN map \ { client_id } |-> map[k]]

\* client_count(): self.clients.read().await.len()
client_count(map) == Cardinality(DOMAIN map)

\* outcomes of TcpListener::bind
BindOutcomes == { "Ok", "Err" }

\* variant: the accept loop is spawned whatever bind returned
start_unchecked(bind) ==
    [result |-> bind, listening |-> TRUE]
\* WebSocketServer::start / SseServer::start: bind, `?`, spawn the accept loop
start(bind) ==
    IF bind = "Err" THEN [result |-> "Err", listening |-> FALSE]
    ELSE [result |-> "Ok", listening |-> TRUE]

\* StreamOutput::start: a no-op for the print sink, else the server's start
StreamOutput_start(kind, bind) ==
    IF kind = "Print" THEN [result |-> "Ok", listening |-> FALSE]
    ELSE start(bind)

NoConnection == [phase |-> "none", id |-> None, timer |-> "off"]

NotStarted == [result |-> "none", listening |-> FALSE]

ConnIdle ==
    /\ started = NotStarted
    /\ next_client_id = 0
    /\ clients = << >>
    /\ conns = [c \in Clients |-> NoConnection]

\* a call of start(addr)
Start(bind) ==
    /\ ~started.listening
    /\ started' = StreamOutput_start(server, bind)
    /\ UNCHANGED <<next_client_id, clients, conns>>
    /\ UNCHANGED <<decodeVars, dispatchVars, ingestVars, streamVars>>

\* the accept loop exists once start() has spawned it
Listening == started.listening

\* the accept loop of the WebSocket server is at listener.accept(): the
\* iteration for every earlier connection has spawned its task
WsAccepting ==
    \A d \in Clients : conns[d].phase \notin { "accepted", "subscribed", "inserting" }

\* websocket accept loop, Ok((stream, addr)): the connection gets its id
WsAccept(c) ==
    /\ server = "WebSocket" /\ Listening /\ WsAccepting
    /\ conns[c].phase = "none"
    /\ \A d \in Clients : d < c => conns[d].phase # "none"
    /\ LET f == fetch_add(next_client_id)
       IN  /\ next_client_id' = f.next
           /\ conns' = [conns EXCEPT ![c] = [phase |-> "accepted", id |-> Some(f.id), timer |-> "off"]]
    /\ UNCHANGED <<started, clients>>
    /\ UNCHANGED <<decodeVars, dispatchVars, ingestVars, streamVars>>

\* websocket accept loop: broadcast_tx.subscribe(); the Receiver is not
\* polled before the handshake is done
WsSubscribe(c) ==
    /\ server = "WebSocket" /\ conns[c].phase = "accepted"
    /\ LET s == subscribe(chan)
       IN  /\ rxs' = [rxs EXCEPT ![c] = [s.rx EXCEPT !.state = "held"]]
           /\ chan' = s.ch
    /\ since' = [since EXCEPT ![c] = npub]
    /\ conns' = [conns EXCEPT ![c].phase = "subscribed"]
    /\ UNCHANGED <<started, next_client_id, clients>>
    /\ UNCHANGED <<server, capacity, npub, result, delivered, lagged>>
    /\ UNCHANGED <<decodeVars, dispatchVars, ingestVars>>

\* websocket accept loop: the client is added to the map and the task of
\* handle_connection is spawned
WsInsert(c) ==
    /\ server = "WebSocket" /\ conns[c].phase = "subscribed"
    /\ clients' = insert(clients, conns[c].id[1], c)
    /\ conns' = [conns EXCEPT ![c].phase = "registered"]
    /\ UNCHANGED <<started, next_client_id>>
    /\ UNCHANGED <<decodeVars, dispatchVars, ingestVars, streamVars>>

\* handle_connection: accept_async succeeds, the select loop starts
WsHandshake(c) ==
    /\ server = "WebSocket" /\ conns[c].phase = "registered"
    /\ conns' = [conns EXCEPT ![c].phase = "streaming"]
    /\ rxs' = [rxs EXCEPT ![c].state = "open"]
    /\ UNCHANGED <<started, next_client_id, clients>>
    /\ UNCHANGED <<server, capacity, chan, npub, result, delivered, lagged, since>>
    /\ UNCHANGED <<decodeVars, dispatchVars, ingestVars>>

\* handle_connection: accept_async fails and `?` returns the error: the
\* Receiver is dropped with the task, the map is not touched
WsHandshakeFail(c) ==
    /\ server = "WebSocket" /\ conns[c].phase = "registered"
    /\ conns' = [conns EXCEPT ![c].phase = "failed"]
    /\ rxs' = [rxs EXCEPT ![c] = [state |-> "closed", next |-> 0]]
    /\ chan' = drop_receiver(chan)
    /\ Forgotten(c)
    /\ UNCHANGED <<started, next_client_id, clients>>
    /\ UNCHANGED <<server, capacity, npub, result>>
    /\ UNCHANGED <<decodeVars, dispatchVars, ingestVars>>

\* handle_connection: recv yields a message, write.send fails, break
WsWriteFail(c) ==
    /\ server = "WebSocket" /\ conns[c].phase = "streaming"
    /\ LET r == recv(chan, rxs[c])
       IN  /\ r.result = "Ok"
           /\ rxs' = [rxs EXCEPT ![c] = [state |-> "held", next |-> r.next]]
    /\ conns' = [conns EXCEPT ![c].phase = "leaving"]
    /\ UNCHANGED <<started, next_client_id, clients>>
    /\ UNCHANGED <<server, capacity, chan, npub, result, delivered, lagged, since>>
    /\ UNCHANGED <<decodeVars, dispatchVars, ingestVars>>

\* handle_connection: Close, end of stream, read error or failed pong, break
WsDisconnect(c) ==
    /\ server = "WebSocket" /\ conns[c].phase = "streaming"
    /\ rxs' = [rxs EXCEPT ![c].state = "held"]
    /\ conns' = [conns EXCEPT ![c].phase = "leaving"]
    /\ UNCHANGED <<started, next_client_id, clients>>
    /\ UNCHANGED <<server, capacity, chan, npub, result, delivered, lagged, since>>
    /\ UNCHANGED <<decodeVars, dispatchVars, ingestVars>>

\* handle_connection after the loop: the client is removed from the map, the
\* function returns and its Receiver is dropped
WsRemove(c) ==
    /\ server = "WebSocket" /\ conns[c].phase = "leaving"
    /\ clients' = remove(clients, conns[c].id[1])
    /\ conns' = [conns EXCEPT ![c].phase = "closed"]
    /\ rxs' = [rxs EXCEPT ![c] = [state |-> "closed", next |-> 0]]
    /\ chan' = drop_receiver(chan)
    /\ Forgotten(c)
    /\ UNCHANGED <<started, next_client_id>>
    /\ UNCHANGED <<server, capacity, npub, result>>
    /\ UNCHANGED <<decodeVars, dispatchVars, ingestVars>>

\* a send of the publisher while connections come and go
ConnPublish == server # "Print" /\ npub < MaxConnSends /\ Publish(TestData)

\* sse accept loop, Ok((stream, addr)): the connection gets its id and the
\* task serving it is spawned
SseAccept(c) ==
    /\ server = "Sse" /\ Listening
    /\ conns[c].phase = "none"
    /\ \A d \in Clients : d < c => conns[d].phase # "none"
    /\ LET f == fetch_add(next_client_id)
       IN  /\ next_client_id' = f.next
           /\ conns' = [conns EXCEPT ![c] = [phase |-> "accepted", id |-> Some(f.id), timer |-> "off"]]
    /\ UNCHANGED <<started, clients>>
    /\ UNCHANGED <<decodeVars, dispatchVars, ingestVars, streamVars>>

\* request paths: the two that are served and one that is not
Paths == { "/", "/events", "/metrics" }
\* handle_request: path != "/events" && path != "/" is answered 404
served(path) == ~(path # "/events" /\ path # "/")

\* variant: the client is added to the map before the path is looked at
SseNotFound_registered(c) ==
    /\ server = "Sse" /\ conns[c].phase = "accepted"
    /\ \E path \in Paths : ~served(path)
    /\ clients' = insert(clients, conns[c].id[1], c)
    /\ conns' = [conns EXCEPT ![c].phase = "refused"]
    /\ UNCHANGED <<started, next_client_id>>
    /\ UNCHANGED <<decodeVars, dispatchVars, ingestVars, streamVars>>
\* handle_request, a path other than "/events" and "/": 404, nothing else
SseNotFound(c) ==
    /\ server = "Sse" /\ conns[c].phase = "accepted"
    /\ \E path \in Paths : ~served(path)
    /\ conns' = [conns EXCEPT ![c].phase = "refused"]
    /\ UNCHANGED <<started, next_client_id, clients>>
    /\ UNCHANGED <<decodeVars, dispatchVars, ingestVars, streamVars>>

\* handle_request, "/events" or "/": the client is added to the map
SseInsert(c) ==
    /\ server = "Sse" /\ conns[c].phase \in { "accepted", "refused" }
    /\ \E path \in Paths : served(path)
    /\ clients' = insert(clients, conns[c].id[1], c)
    /\ conns' = [conns EXCEPT ![c].phase = "registered"]
    /\ UNCHANGED <<started, next_client_id>>
    /\ UNCHANGED <<decodeVars, dispatchVars, ingestVars, streamVars>>

\* handle_request: broadcast_tx.subscribe(), the response streams the
\* Receiver, and the clean-up task is spawned with its 100 ms sleep
SseSubscribe(c) ==
    /\ server = "Sse" /\ conns[c].phase = "registered"
    /\ LET s == subscribe(chan)
       IN  /\ rxs' = [rxs EXCEPT ![c] = s.rx]
           /\ chan' = s.ch
    /\ since' = [since EXCEPT ![c] = npub]
    /\ conns' = [conns EXCEPT ![c].phase = "streaming", ![c].timer = "armed"]
    /\ UNCHANGED <<started, next_client_id, clients>>
    /\ UNCHANGED <<server, capacity, npub, result, delivered, lagged>>
    /\ UNCHANGED <<decodeVars, dispatchVars, ingestVars>>

\* the clean-up task wakes: the client is removed from the map, whether its
\* connection still streams or not
SseCleanup(c) ==
    /\ server = "Sse" /\ conns[c].timer = "armed"
    /\ clients' = remove(clients, conns[c].id[1])
    /\ conns' = [conns EXCEPT ![c].timer = "fired"]
    /\ UNCHANGED <<started, next_client_id>>
    /\ UNCHANGED <<decodeVars, dispatchVars, ingestVars, streamVars>>

\* the peer of an SSE connection goes away or a write to it fails: hyper
\* drops the response body and with it the Receiver
SseClose(c) ==
    /\ server = "Sse" /\ conns[c].phase \in { "accepted", "refused", "streaming" }
    /\ conns' = [conns EXCEPT ![c].phase = "closed"]
    /\ IF conns[c].phase = "streaming"
       THEN /\ rxs' = [rxs EXCEPT ![c] = [state |-> "closed", next |-> 0]]
            /\ chan' = drop_receiver(chan)
            /\ Forgotten(c)
       ELSE UNCHANGED <<rxs, chan, delivered, lagged, since>>
    /\ UNCHANGED <<started, next_client_id, clients>>
    /\ UNCHANGED <<server, capacity, npub, result>>
    /\ UNCHANGED <<decodeVars, dispatchVars, ingestVars>>

\* clients.write().await of an insert returns the guard: the accept loop
\* (WebSocket) or handle_request (SSE) waited until no other guard exists
LockInsert(c) ==
    /\ ~LockHeld
    /\ \/ server = "WebSocket" /\ conns[c].phase = "subscribed"
       \/ server = "Sse" /\ conns[c].phase \in { "accepted", "refused" }
    /\ conns' = [conns EXCEPT ![c].phase = "inserting"]
    /\ UNCHANGED <<started, next_client_id, clients>>
    /\ UNCHANGED <<decodeVars, dispatchVars, ingestVars, streamVars>>

\* .insert(client_id, addr) and the end of the statement: the guard is dropped
Inserted(c) ==
    /\ conns[c].phase = "inserting"
    /\ clients' = insert(clients, conns[c].id[1], c)
    /\ conns' = [conns EXCEPT ![c].phase = "registered"]
    /\ UNCHANGED <<started, next_client_id>>
    /\ UNCHANGED <<decodeVars, dispatchVars, ingestVars, streamVars>>

\* handle_connection after the loop: clients.write().await returns the guard
LockRemove(c) ==
    /\ ~LockHeld
    /\ server = "WebSocket" /\ conns[c].phase = "leaving"
    /\ conns' = [conns EXCEPT ![c].phase = "removing"]
    /\ UNCHANGED <<started, next_client_id, clients>>
    /\ UNCHANGED <<decodeVars, dispatchVars, ingestVars, streamVars>>

\* .remove(&client_id), the guard is dropped, the function returns and its
\* Receiver is dropped
Removed(c) ==
    /\ conns[c].phase = "removing"
    /\ clients' = remove(clients, conns[c].id[1])
    /\ conns' = [conns EXCEPT ![c].phase = "closed"]
    /\ rxs' = [rxs EXCEPT ![c] = [state |-> "closed", next |-> 0]]
    /\ chan' = drop_receiver(chan)
    /\ Forgotten(c)
    /\ UNCHANGED <<started, next_client_id>>
    /\ UNCHANGED <<server, capacity, npub, result>>
    /\ UNCHANGED <<decodeVars, dispatchVars, ingestVars>>

\* the clean-up task of an SSE connection wakes and gets the guard
LockCleanup(c) ==
    /\ ~LockHeld
    /\ server = "Sse" /\ conns[c].timer = "armed"
    /\ conns' = [conns EXCEPT ![c].timer = "removing"]
    /\ UNCHANGED <<started, next_client_id, clients>>
    /\ UNCHANGED <<decodeVars, dispatchVars, ingestVars, streamVars>>

\* the clean-up task removes the client and drops the guard
CleanedUp(c) ==
    /\ conns[c].timer = "removing"
    /\ clients' = remove(clients, conns[c].id[1])
    /\ conns' = [conns EXCEPT ![c].timer = "fired"]
    /\ UNCHANGED <<started, next_client_id>>
    /\ UNCHANGED <<decodeVars, dispatchVars, ingestVars, streamVars>>

\* a client of a server subscribes
SinkSubscribe(c) == server # "Print" /\ Subscribe(c)

----------------------------------------------------------------------------
(* aave.rs, morpho.rs: the bundles of extracted events *)

\* AaveUserUpdates::default() / MorphoUpdates::default() (derive(Default))
AaveUserUpdates_default ==
    [supplies |-> <<>>, withdraws |-> <<>>, borrows |-> <<>>, repays |-> <<>>,
     liquidations |-> <<>>]
MorphoUpdates_default ==
    [supplies |-> <<>>, withdraws |-> <<>>, borrows |-> <<>>, repays |-> <<>>,
     supply_collaterals |-> <<>>, withdraw_collaterals |-> <<>>,
     liquidations |-> <<>>, create_markets |-> <<>>]

\* AaveUserUpdates::extract_all
AaveUserUpdates_extract_all(ls) ==
    [supplies     |-> extract_all("ParsedSupply", ls),
     withdraws    |-> extract_all("ParsedWithdraw", ls),
     borrows      |-> extract_all("ParsedBorrow", ls),
     repays       |-> extract_all("ParsedRepay", ls),
     liquidations |-> extract_all("ParsedLiquidation", ls)]

\* MorphoUpdates::extract_all
MorphoUpdates_extract_all(ls) ==
    [supplies             |-> extract_all("ParsedMorphoSupply", ls),
     withdraws            |-> extract_all("ParsedMorphoWithdraw", ls),
     borrows              |-> extract_all("ParsedMorphoBorrow", ls),
     repays               |-> extract_all("ParsedMorphoRepay", ls),
     supply_collaterals   |-> extract_all("ParsedMorphoSupplyCollateral", ls),
     withdraw_collaterals |-> extract_all("ParsedMorphoWithdrawCollateral", ls),
     liquidations         |-> extract_all("ParsedMorphoLiquidation", ls),
     create_markets       |-> extract_all("ParsedMorphoCreateMarket", ls)]

\* AaveUserUpdates::total_count
AaveUserUpdates_total_count(u) ==
    Len(u.supplies) + Len(u.withdraws) + Len(u.borrows) + Len(u.repays)
        + Len(u.liquidations)

\* variant: the sum of the five fields the two bundles have in common
MorphoUpdates_total_count_short(u) ==
    Len(u.supplies) + Len(u.withdraws) + Len(u.borrows) + Len(u.repays)
        + Len(u.liquidations)
\* MorphoUpdates::total_count
MorphoUpdates_total_count(u) ==
    Len(u.supplies) + Len(u.withdraws) + Len(u.borrows) + Len(u.repays)
        + Len(u.supply_collaterals) + Len(u.withdraw_collaterals)
        + Len(u.liquidations) + Len(u.create_markets)

\* one log of every event a bundle collects, and one it does not
BundleLogs ==
    { WellFormed(ev, "0xA") : ev \in { Aave_Supply, Aave_Withdraw, Aave_Borrow,
                                       Aave_Repay, Aave_LiquidationCall } }
    \cup { WellFormed(ev, "0xB") : ev \in { Morpho_Supply, Morpho_Withdraw, Morpho_Borrow,
                                            Morpho_Repay, Morpho_SupplyCollateral,
                                            Morpho_WithdrawCollateral, Morpho_Liquidate,
                                            Morpho_CreateMarket } }
    \cup { TransferLog }

NoBundles == [aave |-> AaveUserUpdates_default, morpho |-> MorphoUpdates_default]

\* the counts the two total_count() return for the bundles b
Counts(b) == [aave   |-> AaveUserUpdates_total_count(b.aave),
              morpho |-> MorphoUpdates_total_count(b.morpho)]

\* the bundles b were made by the operation o and their total_count() taken
Bundled(o, b) ==
    /\ extracted' = b
    /\ decoded' = Counts(b)
    /\ op' = o
    /\ UNCHANGED <<bloom, inserted, flags, log>>
    /\ UNCHANGED <<dispatchVars, ingestVars, streamVars, connVars>>

\* both bundles from Default::default()
BundleDefault ==
    /\ op = "init"
    /\ logs' = <<>>
    /\ Bundled("default", NoBundles)

\* both bundles from extract_all on one log slice, as the handlers of
\* protocols/aave.rs and protocols/morpho.rs make them
BundleExtractAll(ls) ==
    /\ op = "init"
    /\ logs' = ls
    /\ Bundled("extract_all", [aave   |-> AaveUserUpdates_extract_all(ls),
                               morpho |-> MorphoUpdates_extract_all(ls)])

\* the fields are public: a holder of a bundle pushes an event (here only
\* its kind) onto one
BundlePush(p, f) ==
    /\ op \in { "default", "extract_all", "push" }
    /\ f \in DOMAIN extracted[p]
    /\ decoded.aave + decoded.morpho < MaxLogs
    /\ logs' = logs
    /\ Bundled("push", [extracted EXCEPT ![p][f] = Append(@, [kind |-> f])])

----------------------------------------------------------------------------
(* The signature tests, and topics[0] compared with SIGNATURE_HASH *)

\* assert_eq!(E::SIGNATURE_HASH, keccak256(b"E(type1,...)")) for the
\* declaration d: both digests are taken, with the topic word the decoders
\* and prefilters of this model use for the event
SignatureTest(d) ==
    /\ op = "init"
    /\ decoded' = [name     |-> d.name,
                   compiled |-> SolEvent_SIGNATURE_HASH(d),
                   expected |-> keccak256(concat(CanonicalSignature(d.event))),
                   topic0   |-> d.event.hash,
                   matched  |-> FALSE]
    /\ op' = "signature"
    /\ UNCHANGED <<bloom, inserted, flags, log, logs, extracted>>
    /\ UNCHANGED <<dispatchVars, ingestVars, streamVars, connVars>>

\* log.topics[0] != E::SIGNATURE_HASH of a try_from_log, on the log l
TopicMatch(l) ==
    /\ op = "signature"
    /\ log' = l
    /\ decoded' = [decoded EXCEPT !.matched =
                      l.topics # <<>> /\ l.topics[1] = WordOf(decoded.compiled)]
    /\ op' = "matched"
    /\ UNCHANGED <<bloom, inserted, flags, logs, extracted>>
    /\ UNCHANGED <<dispatchVars, ingestVars, streamVars, connVars>>

----------------------------------------------------------------------------
(* Specifications *)

\* the ingestion loop
Init == DecodeIdle /\ DispatchIdle /\ IngestIdle /\ StreamIdle /\ ConnIdle

Next ==
    \/ CtrlC
    \/ \E t \in Texts : \E ord \in Orders(TextKeys(t)) : RecvText(t, ord)
    \/ \E b \in Binaries : \E ord \in Orders(BinaryKeys(b)) : RecvBinary(b, ord)
    \/ \E k \in { "Ping", "Pong", "Frame" } : RecvControl(k)
    \/ RecvClose
    \/ RecvError
    \/ StreamEnd
    \/ HandleReturn

Spec == Init /\ [][Next]_vars

\* the prefilters and decoders on bounded inputs
InitDecode == DecodeIdle /\ DispatchIdle /\ IngestIdle /\ StreamIdle /\ ConnIdle

NextDecode ==
    \/ \E w \in BloomWords : Accrue(w)
    \/ FromBloom
    \/ \E l \in LogSet : TryFromLog(l)
    \/ \E ls \in SeqsUpTo(SampleLogs, MaxLogs) : ExtractAll(ls)

SpecDecode == InitDecode /\ [][NextDecode]_vars

\* one flashblock through process_all_protocols
InitDispatch ==
    /\ DecodeIdle /\ IngestIdle /\ StreamIdle /\ ConnIdle
    /\ fb \in FlashblockSet
    /\ sink \in StreamOutputs
    /\ caller = "idle" /\ spawned = 0
    /\ hpc = [h \in Handlers |-> "unspawned"]
    /\ hevents = [h \in Handlers |-> <<>>]
    /\ hidx = [h \in Handlers |-> 1]
    /\ published = <<>>

NextDispatch ==
    \/ Call
    \/ Spawn
    \/ Join
    \/ \E ord \in Orders(ReceiptKeys(fb)) : UniV3Extract(ord)
    \/ UniV3Iterate
    \/ \E ord \in Orders(ReceiptKeys(fb)) : ChainlinkExtract(ord)
    \/ ChainlinkIterate

SpecDispatch == InitDispatch /\ [][NextDispatch]_vars

\* the broadcast channel of a server, its publisher and its subscribers
InitStream ==
    /\ DecodeIdle /\ DispatchIdle /\ IngestIdle /\ ConnIdle
    /\ server \in { "WebSocket", "Sse" }
    /\ capacity \in Capacities
    /\ chan = broadcast_channel(capacity)
    /\ rxs = [c \in Clients |-> NoReceiver]
    /\ npub = 0 /\ result = "none"
    /\ delivered = [c \in Clients |-> <<>>]
    /\ lagged = [c \in Clients |-> <<>>]
    /\ since = [c \in Clients |-> 0]

NextStream ==
    \/ \E data \in Payloads : Publish(data)
    \/ \E c \in Clients : Subscribe(c)
    \/ \E c \in Clients : Deliver(c)
    \/ \E c \in Clients : WriteFail(c)
    \/ \E c \in Clients : Lag(c)
    \/ \E c \in Clients : Disconnect(c)

SpecStream == InitStream /\ [][NextStream]_vars

\* the connections of a WebSocket server with a channel of capacity 1 under
\* fair scheduling: a task whose recv is ready is eventually polled, and
\* takes one of the outcomes of recv followed by the write
InitDelivery ==
    /\ DecodeIdle /\ DispatchIdle /\ IngestIdle /\ ConnIdle
    /\ server = "WebSocket"
    /\ capacity = 1
    /\ chan = broadcast_channel(capacity)
    /\ rxs = [c \in Clients |-> NoReceiver]
    /\ npub = 0 /\ result = "none"
    /\ delivered = [c \in Clients |-> <<>>]
    /\ lagged = [c \in Clients |-> <<>>]
    /\ since = [c \in Clients |-> 0]

NextDelivery ==
    \/ ConnPublish
    \/ \E c \in Clients : Subscribe(c)
    \/ \E c \in Clients : Deliver(c)
    \/ \E c \in Clients : WriteFail(c)
    \/ \E c \in Clients : Lag(c)
    \/ \E c \in Clients : Stall(c)
    \/ \E c \in Clients : Disconnect(c)

SpecDelivery ==
    /\ InitDelivery /\ [][NextDelivery]_vars
    /\ \A c \in Clients : WF_vars(Deliver(c) \/ WriteFail(c) \/ Lag(c) \/ Stall(c))

\* a server from start() on: its accept loop, its registry, its connections
\* and the messages they are sent
InitConn ==
    /\ DecodeIdle /\ DispatchIdle /\ IngestIdle /\ ConnIdle
    /\ server \in { "WebSocket", "Sse", "Print" }
    /\ capacity = 2 * MaxConnSends     \* no Receiver can lag within the sends made
    /\ chan = broadcast_channel(capacity)
    /\ rxs = [c \in Clients |-> NoReceiver]
    /\ npub = 0 /\ result = "none"
    /\ delivered = [c \in Clients |-> <<>>]
    /\ lagged = [c \in Clients |-> <<>>]
    /\ since = [c \in Clients |-> 0]

NextConn ==
    \/ \E bind \in BindOutcomes : Start(bind)
    \/ \E c \in Clients : WsAccept(c)
    \/ \E c \in Clients : WsSubscribe(c)
    \/ \E c \in Clients : WsInsert(c)
    \/ \E c \in Clients : WsHandshake(c)
    \/ \E c \in Clients : WsHandshakeFail(c)
    \/ \E c \in Clients : WsWriteFail(c)
    \/ \E c \in Clients : WsDisconnect(c)
    \/ \E c \in Clients : WsRemove(c)
    \/ \E c \in Clients : SseAccept(c)
    \/ \E c \in Clients : SseNotFound(c)
    \/ \E c \in Clients : SseInsert(c)
    \/ \E c \in Clients : SseSubscribe(c)
    \/ \E c \in Clients : SseCleanup(c)
    \/ \E c \in Clients : SseClose(c)
    \/ ConnPublish
    \/ \E c \in Clients : Deliver(c)

SpecConn == InitConn /\ [][NextConn]_vars

\* the same, with the tasks that the runtime is bound to run: the rest of
\* handle_connection after its loop, and the clean-up task after its sleep
SpecConnFair ==
    /\ SpecConn
    /\ \A c \in Clients : WF_vars(WsRemove(c)) /\ WF_vars(SseCleanup(c))


\* one sink of each kind, sent labelled payloads and ready-made envelopes
InitSend ==
    /\ DecodeIdle /\ DispatchIdle /\ IngestIdle /\ ConnIdle
    /\ server \in StreamOutputs
    /\ capacity = 2
    /\ chan = broadcast_channel(capacity)
    /\ rxs = [c \in Clients |-> NoReceiver]
    /\ npub = 0 /\ result = "none"
    /\ delivered = [c \in Clients |-> <<>>]
    /\ lagged = [c \in Clients |-> <<>>]
    /\ since = [c \in Clients |-> 0]

NextSend ==
    \/ \E l \in Labels, d \in SendPayloads : SinkSend(l, d)
    \/ \E l \in Labels, d \in SendPayloads : SinkSendEnvelope(StreamEnvelope_new(l, d))
    \/ \E c \in Clients : SinkSubscribe(c)

SpecSend == InitSend /\ [][NextSend]_vars

\* bundles of Aave and Morpho events and their total_count()
InitBundle == DecodeIdle /\ DispatchIdle /\ IngestIdle /\ StreamIdle /\ ConnIdle

NextBundle ==
    \/ BundleDefault
    \/ \E ls \in SeqsUpTo(BundleLogs, MaxLogs) : BundleExtractAll(ls)
    \/ \E p \in { "aave", "morpho" } :
          \E f \in DOMAIN MorphoUpdates_default : BundlePush(p, f)

SpecBundle == InitBundle /\ [][NextBundle]_vars

\* the signature hash of every declared event, and logs matched against it
InitSignature == DecodeIdle /\ DispatchIdle /\ IngestIdle /\ StreamIdle /\ ConnIdle

NextSignature ==
    \/ \E d \in SolEvents : SignatureTest(d)
    \/ \E l \in BundleLogs \cup { SwapLog, AnswerUpdatedLog } : TopicMatch(l)

SpecSignature == InitSignature /\ [][NextSignature]_vars

\* the servers with the write guard of the registry taken and dropped in
\* separate steps, as tasks running on several threads see it
NextLock ==
    \/ \E bind \in BindOutcomes : Start(bind)
    \/ \E c \in Clients : WsAccept(c)
    \/ \E c \in Clients : WsSubscribe(c)
    \/ \E c \in Clients : LockInsert(c)
    \/ \E c \in Clients : Inserted(c)
    \/ \E c \in Clients : WsHandshake(c)
    \/ \E c \in Clients : WsHandshakeFail(c)
    \/ \E c \in Clients : WsWriteFail(c)
    \/ \E c \in Clients : WsDisconnect(c)
    \/ \E c \in Clients : LockRemove(c)
    \/ \E c \in Clients : Removed(c)
    \/ \E c \in Clients : SseAccept(c)
    \/ \E c \in Clients : SseNotFound(c)
    \/ \E c \in Clients : SseSubscribe(c)
    \/ \E c \in Clients : LockCleanup(c)
    \/ \E c \in Clients : CleanedUp(c)
    \/ \E c \in Clients : SseClose(c)
    \/ ConnPublish
    \/ \E c \in Clients : Deliver(c)

SpecLock == InitConn /\ [][NextLock]_vars

----------------------------------------------------------------------------
(* Properties *)

Count(x, seq) == Cardinality({ i \in DOMAIN seq : seq[i] = x })

\* the sol! event each decoder is written for
DecoderEvent(k) ==
    CASE k = "ParsedSupply"      -> Aave_Supply
      [] k = "ParsedWithdraw"    -> Aave_Withdraw
      [] k = "ParsedBorrow"      -> Aave_Borrow
      [] k = "ParsedRepay"       -> Aave_Repay
      [] k = "ParsedLiquidation" -> Aave_LiquidationCall
      [] k = "ParsedMorphoSupply"   -> Morpho_Supply
      [] k = "ParsedMorphoWithdraw" -> Morpho_Withdraw
      [] k = "ParsedMorphoBorrow"   -> Morpho_Borrow
      [] k = "ParsedMorphoRepay"    -> Morpho_Repay
      [] k = "ParsedMorphoSupplyCollateral"   -> Morpho_SupplyCollateral
      [] k = "ParsedMorphoWithdrawCollateral" -> Morpho_WithdrawCollateral
      [] k = "ParsedMorphoLiquidation"  -> Morpho_Liquidate
      [] k = "ParsedMorphoCreateMarket" -> Morpho_CreateMarket
      [] k = "ParsedAnswerUpdated" -> AnswerUpdated
      [] k = "ParsedNewRound"      -> NewRound
      [] k = "ParsedSwap"          -> Swap

\* the event each prefilter flag stands for
PrefilterFlags ==
    { << "aave", "may_have_supply", Aave_Supply >>,
      << "aave", "may_have_withdraw", Aave_Withdraw >>,
      << "aave", "may_have_borrow", Aave_Borrow >>,
      << "aave", "may_have_repay", Aave_Repay >>,
      << "aave", "may_have_liquidation", Aave_LiquidationCall >>,
      << "morpho", "may_have_supply", Morpho_Supply >>,
      << "morpho", "may_have_withdraw", Morpho_Withdraw >>,
      << "morpho", "may_have_borrow", Morpho_Borrow >>,
      << "morpho", "may_have_repay", Morpho_Repay >>,
      << "morpho", "may_have_supply_collateral", Morpho_SupplyCollateral >>,
      << "morpho", "may_have_withdraw_collateral", Morpho_WithdrawCollateral >>,
      << "morpho", "may_have_liquidation", Morpho_Liquidate >>,
      << "morpho", "may_have_create_market", Morpho_CreateMarket >>,
      << "chainlink", "may_have_answer_updated", AnswerUpdated >>,
      << "chainlink", "may_have_new_round", NewRound >>,
      << "univ3", "may_have_mint", Mint >>,
      << "univ3", "may_have_collect", Collect >>,
      << "univ3", "may_have_burn", Burn >>,
      << "univ3", "may_have_swap", Swap >>,
      << "univ3", "may_have_flash", Flash >> }

\* the events of the logs of ls that decoder k accepts, in order
DecodedOf(k, ls) == Concat([i \in 1..Len(ls) |-> try_decode(k, ls[i])])

\* receipt r carries a bloom in which some bit of ev's signature hash is clear
BloomExcludes(r, ev) ==
    /\ r.logs_bloom # None
    /\ \E bit \in BloomBits(ev.hash) : bit \notin r.logs_bloom[1]

\* what the receipts of f, visited in order ord, give decoder k when the
\* receipts that exclude ev give nothing
ExpectedExtraction(k, ev, f, ord) ==
    Concat([i \in 1..Len(ord) |->
              IF BloomExcludes(f.metadata[1].receipts[ord[i]], ev) THEN <<>>
              ELSE DecodedOf(k, f.metadata[1].receipts[ord[i]].logs)])

Extracted(h) == hpc[h] \in { "loop", "done", "panicked" }
Finished(h)  == hpc[h] \in { "done", "panicked" }

\* C1: handling an upstream message never crashes the ingestion process,
\* whatever the message carries.
C1_NeverCrashes == loop # "crashed"

\* C2: after from_bloom, the flag of every event whose signature hash was
\* inserted into the bloom is true, whatever else was inserted.
C2_NoFalseNegative ==
    op = "from_bloom" =>
        \A pf \in PrefilterFlags : pf[3].hash \in inserted => flags[pf[1]][pf[2]]

C2_Witness ==
    /\ op = "from_bloom"
    /\ inserted = { Aave_Withdraw.hash, TransferTopic }
    /\ flags.aave.may_have_withdraw
    /\ ~flags.aave.may_have_supply

\* C3: what extract_swaps and extract_answer_updates return is, for some
\* iteration order of the receipts, the concatenation of the decodable events
\* of the receipts whose bloom does not exclude the signature hash: a receipt
\* whose bloom excludes it contributes nothing, whatever its logs.
C3_BloomExcludedContributeNothing ==
    /\ Extracted("UniV3Handler") =>
         \E ord \in Orders(ReceiptKeys(fb)) :
            hevents["UniV3Handler"] = ExpectedExtraction("ParsedSwap", Swap, fb, ord)
    /\ Extracted("ChainlinkHandler") =>
         \E ord \in Orders(ReceiptKeys(fb)) :
            hevents["ChainlinkHandler"] =
                ExpectedExtraction("ParsedAnswerUpdated", AnswerUpdated, fb, ord)

C3_Witness ==
    /\ Extracted("UniV3Handler")
    /\ hevents["UniV3Handler"] = <<>>
    /\ \E tx \in ReceiptKeys(fb) :
         /\ fb.metadata[1].receipts[tx].logs_bloom = Some(Bloom_default)
         /\ DecodedOf("ParsedSwap", fb.metadata[1].receipts[tx].logs) # <<>>

\* C4: for a receipt without a bloom both may_have_swap and
\* may_have_answer_updated are true, and every event its logs decode to is
\* among the extracted events.
C4_NoBloomFailsOpen ==
    \A tx \in ReceiptKeys(fb) :
        LET r == fb.metadata[1].receipts[tx]
        IN  r.logs_bloom = None =>
              /\ may_have_swap(r)
              /\ may_have_answer_updated(r)
              /\ Extracted("UniV3Handler") =>
                   \A e \in Range(DecodedOf("ParsedSwap", r.logs)) :
                      Count(e, hevents["UniV3Handler"])
                          >= Count(e, DecodedOf("ParsedSwap", r.logs))
              /\ Extracted("ChainlinkHandler") =>
                   \A e \in Range(DecodedOf("ParsedAnswerUpdated", r.logs)) :
                      Count(e, hevents["ChainlinkHandler"])
                          >= Count(e, DecodedOf("ParsedAnswerUpdated", r.logs))

C4_Witness ==
    /\ Extracted("ChainlinkHandler")
    /\ Extracted("UniV3Handler")
    /\ ReceiptKeys(fb) = TxHashes
    /\ \A tx \in ReceiptKeys(fb) : fb.metadata[1].receipts[tx].logs_bloom = None
    /\ hevents["ChainlinkHandler"] # <<>>
    /\ hevents["UniV3Handler"] # <<>>

\* C5: a log whose topics[0] is a decoder's signature hash but whose topic
\* count is not that event's indexed parameters + 1 decodes to no event.
C5_StrictTopicCount ==
    op = "try_from_log" =>
        \A k \in DecoderKinds :
            ( /\ log.topics # <<>>
              /\ log.topics[1] = DecoderEvent(k).hash
              /\ Len(log.topics) # DecoderEvent(k).topics ) => decoded[k] = None

\* C6: a log whose topics[0] is not a registered signature hash decodes to no
\* event under every decoder.
C6_UnregisteredDecodesToNone ==
    op = "try_from_log" =>
        ( (log.topics # <<>> /\ log.topics[1] \notin RegisteredHashes)
            => \A k \in DecoderKinds : decoded[k] = None )

C6_Witness ==
    /\ op = "try_from_log"
    /\ log.topics = TopicList(TransferTopic, 4)
    /\ log.data = << 0 >>

\* C7: at most one decoder returns an event for a log, and a log slice gives
\* the decoders together no more events than it has logs.
C7_AtMostOneKind ==
    /\ op = "try_from_log" =>
         Cardinality({ k \in DecoderKinds : decoded[k] # None }) <= 1
    /\ op = "extract_all" =>
         \A k1, k2 \in DecoderKinds :
            k1 # k2 =>
              \A i \in 1..Len(logs) :
                 try_decode(k1, logs[i]) = None \/ try_decode(k2, logs[i]) = None

C7_Witness ==
    /\ op = "try_from_log"
    /\ log = WellFormed(Aave_Supply, "0xA")
    /\ decoded["ParsedSupply"] # None
    /\ abi_decode_data(Morpho_Supply, log.data)

\* C8: extract_all returns, for each decoder, the event of every log the
\* decoder accepts, in the order of the logs and once per log.
C8_ExtractAllIsFilterMap ==
    op = "extract_all" =>
        \A k \in DecoderKinds :
            LET idx == { i \in 1..Len(logs) : try_decode(k, logs[i]) # None }
                out == extracted[k]
            IN  /\ Len(out) = Cardinality(idx)
                /\ \A i \in idx :
                     out[Cardinality({ j \in idx : j <= i })] = try_decode(k, logs[i])[1]

C8_Witness ==
    /\ op = "extract_all"
    /\ logs = << SwapLog, SwapLog >>
    /\ Len(extracted["ParsedSwap"]) = 2
    /\ extracted["ParsedAnswerUpdated"] = <<>>

QuietAfterReturn ==
    caller \in { "returned", "panicked" } => (published' = published /\ hpc' = hpc)

\* C9: once process_all_protocols has returned (or unwound), every handler
\* spawned for the flashblock has finished, and nothing is published and no
\* handler moves afterwards.
C9_JoinBarrier ==
    /\ [](caller \in { "returned", "panicked" } => \A h \in Handlers : Finished(h))
    /\ [][QuietAfterReturn]_vars

C9_Witness ==
    /\ caller = "returned"
    /\ Len(published) = 2
    /\ \A h \in Handlers : hevents[h] # <<>>

\* the envelopes due for flashblock f: one per event, under its label
ExpectedEnvelopes(f) ==
    LET ord == CHOOSE o \in Orders(ReceiptKeys(f)) : TRUE
        sw  == ExpectedExtraction("ParsedSwap", Swap, f, ord)
        au  == ExpectedExtraction("ParsedAnswerUpdated", AnswerUpdated, f, ord)
    IN  [i \in 1..Len(sw) |-> [type |-> "UniV3_swap", data |-> sw[i]]]
        \o [i \in 1..Len(au) |-> [type |-> "Chainlink_answer_updated", data |-> au[i]]]

\* the logs of f that are a well-formed log of event ev
WellFormedLogs(f, ev) ==
    { << tx, i >> \in ReceiptKeys(f) \X (1..MaxFbLogs + 1) :
        /\ i <= Len(f.metadata[1].receipts[tx].logs)
        /\ LET l == f.metadata[1].receipts[tx].logs[i]
           IN  /\ Len(l.topics) = ev.topics
               /\ l.topics[1] = ev.hash
               /\ abi_decode_data(ev, l.data) }

Labelled(label) == { i \in DOMAIN published : published[i].type = label }

\* C10: when process_all_protocols returns, the published envelopes are, in
\* some interleaving, one "UniV3_swap" per extracted Swap and one
\* "Chainlink_answer_updated" per extracted AnswerUpdated and nothing else;
\* a flashblock with one well-formed Swap log and one well-formed
\* AnswerUpdated log, no receipt's bloom excluding them, gives one of each.
C10_OneEnvelopePerEvent ==
    caller = "returned" =>
        /\ \A env \in Range(published) \cup Range(ExpectedEnvelopes(fb)) :
              Count(env, published) = Count(env, ExpectedEnvelopes(fb))
        /\ ( /\ Cardinality(WellFormedLogs(fb, Swap)) = 1
             /\ Cardinality(WellFormedLogs(fb, AnswerUpdated)) = 1
             /\ \A tx \in ReceiptKeys(fb) :
                  /\ ~BloomExcludes(fb.metadata[1].receipts[tx], Swap)
                  /\ ~BloomExcludes(fb.metadata[1].receipts[tx], AnswerUpdated) )
           => /\ Cardinality(Labelled("UniV3_swap")) = 1
              /\ Cardinality(Labelled("Chainlink_answer_updated")) = 1
              /\ Len(published) = 2

C10_Witness ==
    /\ caller = "returned"
    /\ Cardinality(WellFormedLogs(fb, Swap)) = 1
    /\ Cardinality(WellFormedLogs(fb, AnswerUpdated)) = 1
    /\ ReceiptKeys(fb) = TxHashes
    /\ Len(published) = 2
    /\ published[1].type = "Chainlink_answer_updated"
    /\ published[2].type = "UniV3_swap"

\* C11: a failure inside one handler is contained: when process_all_protocols
\* has ended, it has returned normally, no handler was aborted, and every
\* handler went through all the events it extracted.
C11_FailureContained ==
    caller \in { "returned", "panicked" } =>
        /\ caller = "returned"
        /\ \A h \in Handlers :
              /\ hpc[h] = "done"
              /\ hevents[h] # <<>> => hidx[h] = Len(hevents[h]) + 1

\* the positions of the journal where the loop body of message n begins
Begins(n) == { i \in DOMAIN journal : journal[i] = << "begin", n >> }
Ends(n)   == { i \in DOMAIN journal : journal[i] = << "end", n >> }

\* C12: upstream messages are handled one at a time in arrival order: the
\* loop body of message n + 1 begins only after the loop body of message n
\* has ended, each begins once, and nothing of a message happens before its
\* begin.
C12_OneAtATimeInOrder ==
    \A i \in DOMAIN journal :
        LET n == journal[i][2]
        IN  /\ n \in 1..handled
            /\ Cardinality(Begins(n)) = 1
            /\ Cardinality(Ends(n)) <= 1
            /\ \A j \in Ends(n) : \A b \in Begins(n) : b < j
            /\ (journal[i][1] = "begin" /\ n > 1) =>
                  \E j \in Ends(n - 1) : j < i

C12_Witness ==
    /\ journal = << << "begin", 1 >>, << "end", 1 >>, << "begin", 2 >>, << "end", 2 >> >>
    /\ diag = << "Flashblock", "UniV3 Swaps detected", "Swap", "Pool state after swap" >>
    /\ loop = "running"

\* a occurs in b as a subsequence: its elements, in its order
RECURSIVE IsSubsequence(_, _)
IsSubsequence(a, b) ==
    IF a = <<>> THEN TRUE
    ELSE IF b = <<>> THEN FALSE
    ELSE IF Head(a) = Head(b) THEN IsSubsequence(Tail(a), Tail(b))
    ELSE IsSubsequence(a, Tail(b))

\* the payloads published under a label, in publish order
PublishedUnder(label) ==
    LET Under(e) == e.type = label
        envs == SelectSeq(published, Under)
    IN  [i \in 1..Len(envs) |-> envs[i].data]

C14_HandedToScheduler ==
    (loop = "running" /\ diag # <<>> /\ diag[1] = "Flashblock") =>
        /\ caller # "idle"
        /\ Len(diag) > 1 => published # <<>>

----------------------------------------------------------------------------
\* C15: a send of the WebSocket or the SSE server returns Ok when no
\* subscriber is connected, and nothing is queued for later subscribers; the
\* only send that returns an error is one whose payload fails to serialize.
PublishReturns ==
    \A data \in Payloads :
        Publish(data) =>
            /\ result' = "Err" <=> data = Unserializable
            /\ (chan.tail.rx_cnt = 0 /\ data # Unserializable) =>
                    result' = "Ok" /\ chan' = chan

C15_OkWithoutSubscribers == [][PublishReturns]_vars

\* sends were made, none reached the buffer, and the last one returned Ok
C15_Witness ==
    /\ server = "Sse"
    /\ npub >= 2 /\ result = "Ok"
    /\ chan.tail.pos = 0 /\ chan.tail.rx_cnt = 0
    /\ \E c \in Clients : rxs[c].state = "closed"

\* C16: a send is never blocked or delayed by subscribers: whatever the
\* subscribers have or have not read, a full buffer of unread messages
\* included, the publisher's next send can be made and returns at once.
C16_PublishNeverBlocked ==
    npub < MaxPublish => \A data \in Payloads : ENABLED Publish(data)

\* a subscriber had a full buffer of unread messages and a further send went
\* through, overwriting the oldest of them
C16_Witness ==
    /\ result = "Ok"
    /\ \E c \in Clients :
        /\ rxs[c].state = "open"
        /\ delivered[c] = <<>> /\ lagged[c] = <<>>
        /\ chan.tail.pos - rxs[c].next > BufferLen(chan)

\* messages sent to the channel that subscriber c has not yet received
Unread(c) == chan.tail.pos - rxs[c].next

\* one receive of subscriber c, whatever it yields
Receive(c) == Deliver(c) \/ WriteFail(c) \/ Lag(c)

\* subscriber c gets a lagged-by-n indication and nothing else: the
\* indication is logged, no message is delivered, the connection stays open
LaggedBy(c, n) ==
    /\ lagged'[c] = Append(lagged[c], n)
    /\ delivered'[c] = delivered[c]
    /\ rxs'[c].state = "open"

\* the least power of two that is at least the capacity
RetainedMessages == CHOOSE p \in { 1, 2, 4, 8 } : p >= capacity /\ p \div 2 < capacity

\* C17 as stated: with channel capacity C, a subscriber that has not received
\* while more than C messages were published obtains a lagged-by-N indication
\* on its next receive.
LagBeyondCapacity ==
    \A c \in Clients :
        (rxs[c].state = "open" /\ Unread(c) > capacity /\ Receive(c)) =>
            \E n \in 1..MaxPublish : LaggedBy(c, n)

C17_LagBeyondCapacity == [][LagBeyondCapacity]_vars

\* C17, amended: the channel retains B messages, B the least power of two
\* that is at least the capacity C. A subscriber that has not received while
\* more than B messages were published obtains on its next receive a
\* lagged-by-N indication, N the number of messages beyond B; it is logged,
\* the connection stays open and the cursor moves to the oldest retained
\* message, so that nothing missed is replayed. With at most B unread
\* messages a receive yields no indication.
LagBeyondRetained ==
    \A c \in Clients :
        (rxs[c].state = "open" /\ Receive(c)) =>
            IF Unread(c) > RetainedMessages
            THEN /\ LaggedBy(c, Unread(c) - RetainedMessages)
                 /\ Unread(c)' = RetainedMessages
            ELSE \A n \in 1..MaxPublish : ~LaggedBy(c, n)

C17_LagBeyondRetained == [][LagBeyondRetained]_vars

\* capacity 2: the subscriber missed the first of three messages, was told
\* so, and went on with the second
C17_Witness ==
    /\ capacity = 2
    /\ \E c \in Clients :
        /\ rxs[c].state = "open"
        /\ lagged[c] = << 1 >>
        /\ Len(delivered[c]) = 1 /\ delivered[c][1].n = 2

\* C18: a subscriber never receives a message that was published before its
\* receive handle on the channel was created.
C18_NothingFromBeforeSubscribe ==
    \A c \in Clients :
        \A i \in DOMAIN delivered[c] : delivered[c][i].n > since[c]

\* a connection subscribed while the buffer held a message that an earlier
\* connection went on to receive, and has itself received a later one
C18_Witness ==
    \E c, d \in Clients :
        /\ delivered[c] # <<>> /\ delivered[d] # <<>>
        /\ since[d] < since[c]
        /\ delivered[d][Len(delivered[d])].n <= since[c]

\* C19: each subscriber receives messages in publish order, also across a
\* lag event, and each delivery is one published message, whole and alone.
C19_PublishOrder ==
    \A c \in Clients :
        /\ \A i, j \in DOMAIN delivered[c] :
                i < j => delivered[c][i].n < delivered[c][j].n
        /\ \A i \in DOMAIN delivered[c] :
                delivered[c][i].json = [type |-> "TestData", data |-> TestData]

\* a subscriber received a message, lagged, and received a later one
C19_Witness ==
    \E c \in Clients :
        /\ lagged[c] # <<>>
        /\ Len(delivered[c]) = 2
        /\ delivered[c][1].n = 1 /\ delivered[c][2].n > 2

RECURSIVE Total(_)
Total(counts) == IF counts = <<>> THEN 0 ELSE Head(counts) + Total(Tail(counts))

\* the messages sent to the channel since c subscribed that c has received,
\* was told it missed, or has still to receive
Accounted(c) == Len(delivered[c]) + Total(lagged[c]) + Unread(c)

\* C20: no published message is delivered more than once to the same
\* subscriber, whatever the interleaving of publishes, receives, lag events
\* and disconnects, and a message a subscriber missed is never re-sent to it:
\* at every step of a live connection each message the channel takes is
\* accounted for once, as delivered, as missed or as still unread.
AtMostOnce ==
    \A c \in Clients :
        (rxs[c].state = "open" /\ rxs'[c].state = "open") =>
            /\ Accounted(c)' - Accounted(c) = chan'.tail.pos - chan.tail.pos
            /\ rxs'[c].next >= rxs[c].next
            /\ \A i, j \in DOMAIN delivered'[c] :
                    delivered'[c][i].n = delivered'[c][j].n => i = j

C20_AtMostOnce == [][AtMostOnce]_vars

\* a subscriber missed a message, received the next one, and with nothing
\* left to read the missed one has not come back
C20_Witness ==
    \E c \in Clients :
        /\ rxs[c].state = "open"
        /\ lagged[c] = << 1 >>
        /\ Len(delivered[c]) = 2
        /\ Unread(c) = 0
        /\ \E d \in Clients : rxs[d].state = "closed"

----------------------------------------------------------------------------
\* the connections that were accepted, and the client_id of one of them
Accepted == { c \in Clients : conns[c].phase # "none" }
IdOf(c) == conns[c].id[1]

\* C21: client ids come from a counter that starts at 0 and goes up by one
\* for each accepted connection: the k-th accepted connection has id k - 1,
\* no two connections of a server ever have the same id, whether the earlier
\* one is still being set up, streaming or closed, and no id is used again.
C21_UniqueClientIds ==
    /\ next_client_id = Cardinality(Accepted)
    /\ \A c \in Accepted : IdOf(c) = c - 1
    /\ \A c, d \in Accepted : c # d => IdOf(c) # IdOf(d)
    /\ \A k \in DOMAIN clients : k < next_client_id

\* the first connection has closed, the second was accepted while or after
\* the first was set up, and the counter stands at 2
C21_Witness ==
    /\ MaxClients >= 2
    /\ conns[1].phase = "closed" /\ conns[1].id = Some(0)
    /\ conns[2].phase = "registered" /\ conns[2].id = Some(1)
    /\ next_client_id = 2

\* connections that stream messages, and connections that have not ended
\* (being set up, streaming, or on their way out of handle_connection)
Streaming == { c \in Clients : conns[c].phase = "streaming" }
Live == { c \in Clients : conns[c].phase \notin { "none", "closed", "failed" } }

\* C22: the registry holds the live connections and only them: every
\* streaming connection has its entry, and every entry is the id of a
\* connection that has neither ended nor failed to complete, so that
\* client_count never exceeds the number of live connections.
C22_RegistryIsLiveSet ==
    /\ \A c \in Streaming : IdOf(c) \in DOMAIN clients
    /\ \A k \in DOMAIN clients : \E c \in Live : IdOf(c) = k
    /\ client_count(clients) <= Cardinality(Live)

\* the connection has ended: its loop was left, its task returned, or its
\* handshake failed
Ended(c) == conns[c].phase \in { "leaving", "closed", "failed" }
Registered(c) == conns[c].id # None /\ IdOf(c) \in DOMAIN clients

\* C23: after a connection has ended, for whatever reason, its client_id is
\* eventually removed from the registry, and once removed is never there
\* again.
C23_EndedIsRemoved ==
    \A c \in Clients :
        /\ Ended(c) ~> ~Registered(c)
        /\ []((Ended(c) /\ ~Registered(c)) => [](~Registered(c)))

\* everything that belongs to the connections other than c
Others(c) ==
    [d \in Clients \ { c } |->
        << conns[d], rxs[d], delivered[d], lagged[d],
           conns[d].id # None /\ IdOf(d) \in DOMAIN clients >>]

\* a write failure of c and what follows it touch c alone
WriteFailureIsLocal ==
    \A c \in Clients :
        /\ WsWriteFail(c) =>
                /\ Others(c)' = Others(c)
                /\ clients' = clients /\ chan' = chan
        /\ WsRemove(c) =>
                /\ Others(c)' = Others(c)
                /\ DOMAIN clients' = DOMAIN clients \ { IdOf(c) }
                /\ chan'.buffer = chan.buffer
        /\ ConnPublish => result' = "Ok"

\* the publisher can send, and a streaming subscriber with unread messages
\* can be sent the next of them, whatever has become of the others
StillServed ==
    /\ (server # "Print" /\ npub < MaxConnSends) => ENABLED ConnPublish
    /\ \A d \in Streaming : Unread(d) > 0 => ENABLED Deliver(d)

\* C24: a write failure on one WebSocket connection ends only that
\* connection's task and removes only its registry entry; every other
\* subscriber keeps receiving the subsequent messages and the publisher's
\* send keeps returning Ok.
C24_WriteFailureIsolated == []StillServed /\ [][WriteFailureIsLocal]_vars

\* the write of the first message to connection 1 failed and its task has
\* left the loop; connection 2 was sent both messages and the last send
\* returned Ok
C24_Witness ==
    /\ server = "WebSocket" /\ MaxClients >= 2
    /\ conns[1].phase = "leaving" /\ rxs[1].next = 1 /\ delivered[1] = <<>>
    /\ conns[2].phase = "streaming" /\ Len(delivered[2]) = 2
    /\ npub = 2 /\ result = "Ok"

----------------------------------------------------------------------------
\* the step ends the handling of a text that is not the JSON of a Flashblock
DropsText ==
    /\ loop = "handling" /\ loop' # "handling"
    /\ from_str(msg[3]) = None

\* the step reads a binary frame that does not decompress, the flag not set
DropsBinary ==
    /\ Reading /\ ~done /\ handled' = handled + 1
    /\ Len(msg') = 2 /\ msg'[1] = "Binary"
    /\ decompress_brotli(msg'[2]) = None

\* C25: a text that fails to parse as a Flashblock, or a binary frame that
\* fails to decompress, is dropped with a diagnostic; the loop is then back
\* at reading the next upstream message, with the loop body of the dropped
\* one complete and the shutdown flag as it was.
MalformedDropped ==
    /\ DropsText =>
            /\ diag' = << "Failed to parse Flashblock JSON" >>
            /\ loop' = "running" /\ done' = done
            /\ journal' = Append(journal, << "end", handled >>)
    /\ DropsBinary =>
            /\ diag' = << "Failed to decompress binary frame", "Binary frame" >>
            /\ loop' = "running" /\ done' = done
            /\ journal' = Whole(handled')

C25_MalformedDropped == [][MalformedDropped]_vars

\* the second message was a compressed text that is no Flashblock: it was
\* dropped, and the loop reads on
C25_Witness ==
    /\ handled = 2 /\ loop = "running"
    /\ Len(msg) = 3 /\ msg[1] = "Binary" /\ msg[3][1] = "garbage"
    /\ diag = << "Failed to parse Flashblock JSON" >>
    /\ Len(journal) = 4

\* the step ends the handling of a text that parses to a flashblock without
\* metadata, and so without block number
EndsNoMetadata ==
    /\ loop = "handling" /\ loop' # "handling"
    /\ from_str(msg[3]) # None
    /\ from_str(msg[3])[1].metadata = None

\* C26: a successfully parsed flashblock that carries no block number (no
\* metadata) triggers no event extraction and no publish: one diagnostic is
\* written, nothing is handed to a handler or a sink, and the loop reads on.
NoMetadataOnlyLogged ==
    EndsNoMetadata =>
        /\ diag' = << "Flashblock (no block_number)" >>
        /\ loop' = "running"
        /\ UNCHANGED <<decodeVars, dispatchVars, streamVars, connVars, done>>

C26_NoMetadataOnlyLogged == [][NoMetadataOnlyLogged]_vars

\* a flashblock without metadata came as a text and was handled
C26_Witness ==
    /\ loop = "running" /\ handled = 1
    /\ Len(msg) = 3 /\ msg[1] = "Text"
    /\ diag = << "Flashblock (no block_number)" >>
    /\ published = <<>> /\ caller = "idle"

\* C27: the shutdown flag decides at one point of an iteration, when a
\* message has been read. If it is set then, the loop exits and neither that
\* message nor any later one is processed; a flag set while a message is
\* being processed does not interrupt it: the loop never ends from within
\* the processing, only between messages.
ShutdownBetweenMessages ==
    /\ (Reading /\ done /\ handled' = handled + 1) =>
            /\ loop' = "ended" /\ journal' = journal
            /\ diag' = << "Shutting down stream reader.", "Stream ended" >>
    /\ (Reading /\ ~done /\ handled' = handled + 1) =>
            /\ journal' # journal /\ journal'[Len(journal) + 1] = << "begin", handled' >>
    /\ loop = "handling" => loop' # "ended" /\ handled' = handled
    /\ (loop = "handling" /\ done' # done) => UNCHANGED <<loop, journal, msg, diag>>
    /\ loop = "ended" => UNCHANGED <<loop, journal, handled, msg, diag>>

C27_ShutdownBetweenMessages == [][ShutdownBetweenMessages]_vars

\* the flag was set, the first message was processed to its end, and the
\* second message was read and not processed
C27_Witness ==
    /\ done /\ loop = "ended" /\ handled = 2
    /\ journal = << << "begin", 1 >>, << "end", 1 >> >>
    /\ diag = << "Shutting down stream reader.", "Stream ended" >>
    /\ Len(msg) = 2 /\ msg[1] = "Text"

----------------------------------------------------------------------------
\* what a call of start() returns
StartReturns ==
    \A bind \in BindOutcomes :
        Start(bind) =>
            /\ server = "Print" => started' = [result |-> "Ok", listening |-> FALSE]
            /\ (server # "Print" /\ bind = "Err") =>
                    started' = [result |-> "Err", listening |-> FALSE]
            /\ (server # "Print" /\ bind = "Ok") => started'.result = "Ok"

\* no accept loop has run: no client was accepted, registered or subscribed
NothingAccepted ==
    /\ Accepted = {} /\ next_client_id = 0
    /\ clients = << >>
    /\ chan.tail.rx_cnt = 0 /\ \A c \in Clients : rxs[c] = NoReceiver

\* C28: if binding the listen address fails, start() of the WebSocket or SSE
\* sink returns an error and no accept loop is spawned, so that no client is
\* ever accepted, registered or subscribed; start() of the print sink does
\* nothing and returns Ok.
C28_BindFailureStartsNothing ==
    /\ [][StartReturns]_vars
    /\ []((started.result # "Ok" \/ server = "Print") =>
            ~started.listening /\ NothingAccepted)

\* the bind of the SSE server failed; a message was sent since, to nobody
C28_Witness ==
    /\ server = "Sse"
    /\ started = [result |-> "Err", listening |-> FALSE]
    /\ npub = 1 /\ result = "Ok" /\ chan.tail.pos = 0

\* C29: for each of the three sinks and through the StreamOutput wrapper,
\* send(label, data) leaves what send_envelope of the envelope
\* {type: label, data} leaves: the same result, and one serialized envelope
\* with that label and that payload unchanged on stdout (Print) or at the
\* tail of the channel (WebSocket, Sse with a receiver); a payload that does
\* not serialize is an error from both and publishes nothing.
EnvelopeOf(l, d) == [data_type |-> l, data |-> d]
JsonOf(l, d) == [type |-> l, data |-> d]
SinksAgree ==
    \A l \in Labels, d \in SendPayloads :
        /\ PrintStream_send(l, d) = PrintStream_send_envelope(EnvelopeOf(l, d))
        /\ WebSocketServer_send(chan, npub + 1, l, d)
             = WebSocketServer_send_envelope(chan, npub + 1, EnvelopeOf(l, d))
        /\ SseServer_send(chan, npub + 1, l, d)
             = SseServer_send_envelope(chan, npub + 1, EnvelopeOf(l, d))
        /\ \A k \in StreamOutputs :
             StreamOutput_send(k, chan, npub + 1, l, d)
               = StreamOutput_send_envelope(k, chan, npub + 1, EnvelopeOf(l, d))
OneEnvelope(l, d) ==
    IF d.kind = "Unserializable"
    THEN result' = "Err" /\ published' = published /\ chan' = chan
    ELSE /\ result' = "Ok"
         /\ IF server = "Print"
            THEN published' = Append(published, JsonOf(l, d)) /\ chan' = chan
            ELSE /\ published' = published
                 /\ IF chan.tail.rx_cnt = 0 THEN chan' = chan
                    ELSE chan' = Stored(chan, [n |-> npub + 1, json |-> JsonOf(l, d)])
SendIsSendEnvelope ==
    \A l \in Labels, d \in SendPayloads :
        SinkSend(l, d) =>
            /\ Sent(StreamOutput_send_envelope(server, chan, npub + 1, EnvelopeOf(l, d)))
            /\ OneEnvelope(l, d)
C29_SendIsSendEnvelope == []SinksAgree /\ [][SendIsSendEnvelope]_vars
\* a sink has published, through send, an envelope whose label is not the
\* payload's type name
C29_Witness ==
    /\ npub = MaxConnSends
    /\ \/ /\ server = "Print"
          /\ \E i \in 1..Len(published) :
                published[i] = JsonOf("TestData", ParsedSwap)
       \/ /\ server \in { "WebSocket", "Sse" }
          /\ chan.tail.rx_cnt > 0
          /\ \E i \in DOMAIN chan.buffer :
                /\ chan.buffer[i].val # None
                /\ chan.buffer[i].val[1].json = JsonOf("ParsedSwap", TestData)

\* C30: for every bundle of protocol events, made by default(), by
\* extract_all or by writing its public fields, total_count() is the sum of
\* the lengths of its per-kind sequences, and 0 for the empty bundle.
RECURSIVE SumOfLengths(_, _)
SumOfLengths(u, fields) ==
    IF fields = {} THEN 0
    ELSE LET f == CHOOSE g \in fields : TRUE
         IN  Len(u[f]) + SumOfLengths(u, fields \ { f })
HasBundles == op \in { "default", "extract_all", "push" }
C30_TotalCountIsSum ==
    HasBundles =>
        /\ decoded.aave = SumOfLengths(extracted.aave, DOMAIN extracted.aave)
        /\ decoded.morpho = SumOfLengths(extracted.morpho, DOMAIN extracted.morpho)
        /\ op = "default" => decoded.aave = 0 /\ decoded.morpho = 0
        /\ \A p \in { "aave", "morpho" } :
              (\A f \in DOMAIN extracted[p] : extracted[p][f] = <<>>) => decoded[p] = 0
\* extract_all found a Morpho SupplyCollateral and a CreateMarket was pushed
\* onto the bundle: total_count() is 2, and 0 for the empty Aave bundle
C30_Witness ==
    /\ op = "push"
    /\ logs # <<>>
    /\ Len(extracted.morpho.supply_collaterals) = 1
    /\ Len(extracted.morpho.create_markets) = 1
    /\ decoded = [aave |-> 0, morpho |-> 2]

\* C31: any() of a prefilter result is the OR of all of its flags: false
\* exactly when every flag is false, as for the default result, and true as
\* soon as one flag is true.
SomeFlag(e) == \E f \in DOMAIN e : e[f]
C31_AnyIsOr ==
    /\ \A p \in DOMAIN flags : any(flags)[p] = SomeFlag(flags[p])
    /\ \A p \in DOMAIN flags : ~any(DefaultFlags)[p]
\* from_bloom found only the CreateMarket flag of Morpho: any() is true for
\* Morpho and false for the three results without a flag
C31_Witness ==
    /\ op = "from_bloom"
    /\ flags.morpho = [MorphoEvents_default EXCEPT !.may_have_create_market = TRUE]
    /\ any(flags) = [aave |-> FALSE, morpho |-> TRUE, chainlink |-> FALSE, univ3 |-> FALSE]

\* C32: for every declared event, the compiled-in SIGNATURE_HASH is
\* keccak256 of the canonical signature string EventName(type1,type2,...),
\* and its leading bytes are the topic word the decoders compare with.
SignatureTaken == op \in { "signature", "matched" }
C32_SignatureHashIsKeccak ==
    SignatureTaken =>
        /\ decoded.compiled = decoded.expected
        /\ WordOf(decoded.compiled) = decoded.topic0
\* the hash of Morpho's Supply(bytes32,address,address,uint256,uint256) was
\* taken and the topics[0] of a Morpho Supply log matched it, while Aave's
\* Supply has another hash
C32_Witness ==
    /\ op = "matched"
    /\ decoded.name = "Supply"
    /\ decoded.topic0 = Morpho_Supply.hash
    /\ decoded.topic0 # Aave_Supply.hash
    /\ log = WellFormed(Morpho_Supply, "0xB")
    /\ decoded.matched

\* C33: the steps of the life of an accepted connection happen in the order
\* client_id allocated, id/address inserted into the registry, receive
\* handle on the broadcast channel created: an id is inserted only once it
\* is allocated, and a connection gets its Receiver only when its id is in
\* the registry.
InsertsAllocated(c) ==
    (~Registered(c) /\ Registered(c)') => conns[c].phase # "none"
SubscribesRegistered(c) ==
    (rxs[c].state = "none" /\ rxs'[c].state # "none") => Registered(c)
LifecycleOrder == \A c \in Clients : InsertsAllocated(c) /\ SubscribesRegistered(c)
C33_LifecycleOrder == [][LifecycleOrder]_vars

\* C34: publishing and delivery never take the lock of the client registry,
\* and no task keeps it over a suspension point: while a register or an
\* unregister holds the write guard, the publisher can send and every
\* streaming connection with an unread message can be delivered it; the
\* holder's next step drops the guard and waits for nothing; the steps that
\* suspend (accept, handshake, receive, write) are taken by tasks that do
\* not hold the guard, and publishing and delivery leave the guard alone.
ServedUnderLock ==
    LockHeld =>
        /\ (server # "Print" /\ npub < MaxConnSends) => ENABLED ConnPublish
        /\ \A d \in Streaming : Unread(d) > 0 => ENABLED Deliver(d)
GuardDropped ==
    \A c \in Clients :
        /\ conns[c].phase = "inserting" => ENABLED Inserted(c)
        /\ conns[c].phase = "removing" => ENABLED Removed(c)
        /\ conns[c].timer = "removing" => ENABLED CleanedUp(c)
OneWriter == \A c, d \in Clients : Writer(c) /\ Writer(d) => c = d
Suspends(c) ==
    \/ WsAccept(c) \/ WsHandshake(c) \/ WsHandshakeFail(c) \/ WsWriteFail(c)
    \/ WsDisconnect(c) \/ SseAccept(c) \/ Deliver(c)
NoGuardOverSuspension ==
    /\ \A c \in Clients : Suspends(c) => ~ServingHolds(c) /\ ~ServingHolds(c)'
    /\ (ConnPublish \/ \E c \in Clients : Deliver(c)) =>
          \A c \in Clients : Writer(c)' = Writer(c)
C34_DeliveryNeverBlockedByRegistry ==
    [](ServedUnderLock /\ GuardDropped /\ OneWriter) /\ [][NoGuardOverSuspension]_vars
\* the unregister of connection 1 holds the write guard while connection 2
\* streams with a message it has not read
C34_Witness ==
    /\ server = "WebSocket"
    /\ conns[1].phase = "removing"
    /\ conns[2].phase = "streaming"
    /\ Unread(2) > 0

\* C35: price_0_in_1 returns a value for the pool state of every decodable
\* Swap, whatever its sqrt_price_x96 in the 160-bit range: the narrowing to
\* 128 bits never aborts.
PriceReturns(swap) == price_0_in_1(pool_state(swap)) # None
C35_PriceOfEverySwap ==
    /\ decoded["ParsedSwap"] # None => PriceReturns(decoded["ParsedSwap"][1])
    /\ \A i \in DOMAIN extracted["ParsedSwap"] : PriceReturns(extracted["ParsedSwap"][i])

----------------------------------------------------------------------------
\* C36 (as stated): under fair scheduling, every message published while a
\* connection is subscribed is eventually written to that connection, unless
\* the connection closes first or the message is overwritten in the channel
\* before the connection reads it (a lag). A message at position p is awaited
\* by connection c while c holds a Receiver whose cursor has not passed p; the
\* cursor passes p only by a write of that message or by a reported lag over
\* overwritten positions.
Positions == 0..(MaxConnSends - 1)
Subscribed(c) == rxs[c].state \in { "open", "stalled" }
Awaited(c, p) == Subscribed(c) /\ rxs[c].next <= p /\ p < chan.tail.pos
Settled(c, p) == ~Subscribed(c) \/ rxs[c].next > p
Advances(c) == Subscribed(c) /\ Subscribed(c)' /\ rxs'[c].next > rxs[c].next
Writes(c) ==
    /\ rxs'[c].state = "open"
    /\ rxs'[c].next = rxs[c].next + 1
    /\ chan.buffer[rxs[c].next % BufferLen(chan)].pos = rxs[c].next
    /\ delivered'[c] =
         Append(delivered[c], chan.buffer[rxs[c].next % BufferLen(chan)].val[1])
Lags(c) ==
    /\ rxs'[c].state = "open"
    /\ lagged'[c] = Append(lagged[c], rxs'[c].next - rxs[c].next)
    /\ \A q \in rxs[c].next..(rxs'[c].next - 1) :
         chan.buffer[q % BufferLen(chan)].pos # q
WrittenOrLagged == \A c \in Clients : Advances(c) => Writes(c) \/ Lags(c)
Stalled(c) == rxs[c].state = "stalled"
Stalls(c) == rxs[c].state = "open" /\ rxs'[c].state = "stalled"
WrittenLaggedOrStalled ==
    \A c \in Clients : Advances(c) => Writes(c) \/ Lags(c) \/ Stalls(c)
----------------------------------------------------------------------------
\* C37: on a log of any topic count, the empty topic list included, no decoder
\* aborts; on the empty topic list, and on every list shorter than the
\* event's, every decoder returns no event: topics[0] is read only after the
\* topic count was checked (or through first()).
Returned(r) == r # Aborted
----------------------------------------------------------------------------
\* C38: an SSE request whose path is neither "/" nor "/events" is answered
\* 404 and leaves the registry, the channel and every Receiver as they were:
\* no registry entry and no subscription come of it.
Refuses(c) == conns[c].phase = "accepted" /\ conns'[c].phase = "refused"
NotFoundChangesNothing ==
    \A c \in Clients :
        Refuses(c) =>
            /\ clients' = clients
            /\ rxs' = rxs /\ chan' = chan
            /\ next_client_id' = next_client_id
C38_NotFoundCreatesNothing ==
    /\ [][NotFoundChangesNothing]_vars
    /\ [](\A c \in Clients :
            conns[c].phase = "refused" =>
                /\ rxs[c].state = "none"
                /\ conns[c].id[1] \notin DOMAIN clients)
\* the second connection was refused while the first one streams
C38_Witness ==
    /\ conns[1].phase = "streaming" /\ conns[1].timer = "armed"
    /\ conns[2].phase = "refused"
    /\ DOMAIN clients = { conns[1].id[1] }
    /\ chan.tail.rx_cnt = 1

----------------------------------------------------------------------------
\* C39: the ingestion loop ends exactly on a Close frame, a read error, the
\* end of the upstream stream, or a message read while the shutdown flag is
\* set; a Ping, Pong or raw frame read while the flag is clear leaves the loop
\* running and is neither parsed nor searched for events.
Running == loop \in { "running", "handling" }
Reads == handled' = handled + 1
ByClose == Reads /\ ~done /\ msg'[1] = "Close"
ByError == Reads /\ ~done /\ msg'[1] = "Err"
ByShutdown == Reads /\ done
ByStreamEnd == ~Reads /\ loop = "running" /\ diag' = << "Stream ended" >>
LoopEnds == Running /\ ~Running'
EndsExactlyOn ==
    /\ LoopEnds => ByClose \/ ByError \/ ByShutdown \/ ByStreamEnd
    /\ (ByClose \/ ByError \/ ByShutdown) => loop' = "ended"
ControlFrameIgnored ==
    (Reads /\ ~done /\ msg'[1] \in { "Ping", "Pong", "Frame" }) =>
        /\ loop' = "running"
        /\ diag' = << "Received control frame" >>
        /\ journal' = Whole(handled')
C39_TerminatesExactlyOn == [][EndsExactlyOn /\ ControlFrameIgnored]_vars

====
